---- MODULE Spec2Model ----
(***************************************************************************)
(* juicebox-asm: the x64 jit assembler (Asm, Label) and the mmap'ed code   *)
(* runtime (Runtime).                                                      *)
(*                                                                         *)
(* SpecAsm  : one or more encoders and a pool of labels; the client calls  *)
(*            nop / jmp / bind and drops labels in any order.              *)
(* SpecRt   : one Runtime; add_code is split at its mprotect calls so that *)
(*            the page protection inside a call is a visible state.        *)
(* SpecDump : SpecRt with a client that also calls dump.                   *)
(* SpecEnc  : a fresh encoder and one instruction call (mov, sub, dec,     *)
(*            cmovz, cmovnz) with operands drawn from every register,      *)
(*            memory operand and immediate the call is implemented for.    *)
(* SpecImm  : one conversion of an integer into an immediate.              *)
(* SpecResolve : one fix-up of Asm::resolve on usize operands.             *)
(* SpecMulti: two encoders sharing the label pool.                         *)
(* SpecBf   : examples/bf.rs, run_jit on a Brainfuck program; the emitted  *)
(*            bytes are executed by a model of the host cpu.               *)
(* SpecVm   : examples/tiny_vm.rs, a guest program run by interp() and     *)
(*            then by jit(), the translated blocks executed by the cpu.    *)
(*                                                                         *)
(* A panic is terminal: `panic` holds its message and no action is enabled *)
(* afterwards (the spec's "fail-fast, no recovery path").                  *)
(* Option<usize> is modelled as a set with at most one element.            *)
(* The host is the x86-64 machine the jitted code runs on, so the native   *)
(* byte order of to_ne_bytes() is little-endian.                           *)
(***************************************************************************)
EXTENDS Integers, Sequences, FiniteSets, TLC

\* ---- bounds of the model ------------------------------------------------
NumLabels == 2          \* labels in the pool
NumAsm == 2             \* encoder instances that exist
MaxCalls == 4           \* encoder and label calls per behaviour
MaxAddCode == 3         \* add_code calls per behaviour

\* ---- program constants --------------------------------------------------
NopRunLen == 511        \* `for _ in 0..0x1ff { asm.nop(); }`
I32Max == 2147483647    \* i32::MAX, the bound of i32::try_from
OpcNop == 144           \* 0x90
OpcJmp == 233           \* 0xe9
PageSize == 4096        \* NonZeroUsize::new(4096), the length of the mapping

Labels == 1..NumLabels
Asms == 1..NumAsm

\* no instruction call is pending
NoInsn == [op |-> "none"]

None == {}
Some(x) == {x}
Unwrap(o) == CHOOSE x \in o : TRUE

VARIABLES
    asms,       \* the encoder instances the client uses
    buf,        \* Asm.buf, per encoder
    location,   \* Label.location, per label
    offsets,    \* Label.offsets, per label
    lstate,     \* per label: "live" after Label::new(), "dropped" after drop
    panic,      \* "none", or the message of the panic that ended the run
    trace,      \* the calls the client has issued so far, in order
    npatched,   \* per encoder: how often emit_at has written at each offset
    insn,       \* the instruction call the client is about to make, or NoInsn
    rt,         \* the Runtime struct: [buf, len, idx]
    mapped,     \* the mapping exists (between mmap and munmap)
    prot,       \* protection of the code page, a subset of {"R", "W", "X"}
    page,       \* the bytes of the code page; page[i + 1] is the byte at buf + i
    pc,         \* position inside Runtime::add_code, "idle" outside of a call
    arg,        \* the `code` argument of the add_code call in progress
    fn_start,   \* the local fn_start of the add_code call in progress
    fns,        \* the function pointers returned so far, with the code given
    ncalls,     \* add_code calls begun
    jit_asm,    \* the file jit.asm: None, or Some(bytes) once dump has written it
    cpu,        \* the host cpu while it runs jitted code: registers, flags, stack, memory
    bf,         \* examples/bf.rs: the BrainfuckJit and the position inside run_jit
    vm          \* examples/tiny_vm.rs: the TinyVm run by interp() and the one run by jit()

asmvars == <<asms, buf, location, offsets, lstate, trace, npatched, insn>>
rtvars == <<rt, mapped, prot, page, pc, arg, fn_start, fns, ncalls, jit_asm>>
appvars == <<cpu, bf, vm>>

\* no jitted code is running and no example program has been set up
NoCpu == [run |-> "off"]
NoBf == [phase |-> "none"]
NoVm == [phase |-> "none"]
NoApps == cpu = NoCpu /\ bf = NoBf /\ vm = NoVm

\* ---- pure helpers -------------------------------------------------------

Pow256(n) == IF n = 0 THEN 1 ELSE IF n = 1 THEN 256 ELSE IF n = 2 THEN 65536
             ELSE 16777216

\* <int>::to_ne_bytes() on the little-endian host: the n bytes of the
\* two's-complement pattern of v, least significant first (\div rounds down,
\* so a negative v yields its sign-extended pattern).  v is within the i32
\* range, so the bytes above the fourth are copies of the sign.
to_ne_bytes(v, n) ==
    [i \in 1..n |->
        IF i <= 4 THEN (v \div Pow256(i - 1)) % 256
        ELSE IF v < 0 THEN 255 ELSE 0]

\* the displacement taken from the placeholder's first byte, not from its end
disp32_from_placeholder(loc, off) == loc - off

\* `loc - off - 4` of Asm::resolve on i32 operands in 0..I32Max; a result
\* below i32::MIN wraps around (release build arithmetic).
disp32(loc, off) ==
    LET d == loc - off
    IN IF d >= -2147483644 THEN d - 4 ELSE (d + I32Max) + 2147483645

\* Asm::emit
emit(b, bytes) == b \o bytes

\* Asm::emit_at: Vec::get_mut(pos..pos + len) is Some iff the range is in bounds.
emit_at_ok(b, pos, n) == pos + n <= Len(b)

\* an emit_at that inserts the bytes at pos instead of overwriting
emit_at_insert(b, pos, bytes) ==
    SubSeq(b, 1, pos) \o bytes \o SubSeq(b, pos + 1, Len(b))

\* an emit_at that starts one byte early
emit_at_shifted(b, pos, bytes) ==
    [i \in 1..Len(b) |->
        IF i > pos - 1 /\ i <= pos - 1 + Len(bytes) THEN bytes[i - pos + 1] ELSE b[i]]

emit_at(b, pos, bytes) ==
    [i \in 1..Len(b) |->
        IF i > pos /\ i <= pos + Len(bytes) THEN bytes[i - pos] ELSE b[i]]

\* a fix-up recorded at the opcode byte instead of the first disp32 byte
record_offset_at_opcode(offs, off) == offs \cup {off - 1}

\* HashSet::insert
record_offset(offs, off) == offs \cup {off}

\* the offsets iterated without being removed
drain_keep(offs) == offs

\* what is left in the HashSet once the Drain iterator is gone
drain(offs) == {}

\* ghost: one more emit_at at offset off
Bump(np, off) ==
    [o \in DOMAIN np \cup {off} |->
        IF o = off THEN (IF o \in DOMAIN np THEN np[o] ELSE 0) + 1 ELSE np[o]]

\* The loop of Asm::resolve over label.offsets_mut().drain().  A HashSet has
\* no defined iteration order: the result is the set of outcomes over every
\* order.  An outcome is the buffer, the emit_at counts and the panic (if any).
RECURSIVE resolve_loop(_, _, _, _)
resolve_loop(b, np, loc, offs) ==
    IF offs = {} THEN {[buf |-> b, np |-> np, panic |-> "none"]}
    ELSE UNION {
        IF off > I32Max
        THEN {[buf |-> b, np |-> np, panic |-> "Label offset did not fit into i32"]}
        ELSE IF ~emit_at_ok(b, off, 4)
        THEN {[buf |-> b, np |-> np, panic |-> "not implemented"]}
        ELSE resolve_loop(emit_at(b, off, to_ne_bytes(disp32(loc, off), 4)),
                          Bump(np, off), loc, offs \ {off})
        : off \in offs }

\* a resolve that also patches the pending fix-ups of every other label
resolve_every_label(b, np, loc, offs) ==
    IF loc = None
    THEN {[buf |-> b, np |-> np, offsets |-> offs, panic |-> "none"]}
    ELSE {[buf |-> r.buf, np |-> r.np, offsets |-> drain(offs), panic |-> r.panic]
            : r \in resolve_loop(b, np, Unwrap(loc),
                                 offs \cup UNION {offsets[l] : l \in Labels})}

\* Asm::resolve: outcomes [buf, np, offsets, panic]
resolve(b, np, loc, offs) ==
    IF loc = None
    THEN {[buf |-> b, np |-> np, offsets |-> offs, panic |-> "none"]}
    ELSE IF Unwrap(loc) > I32Max
    THEN {[buf |-> b, np |-> np, offsets |-> offs,
           panic |-> "Label location did not fit into i32."]}
    ELSE {[buf |-> r.buf, np |-> r.np, offsets |-> drain(offs), panic |-> r.panic]
            : r \in resolve_loop(b, np, Unwrap(loc), offs)}

Call(op, a, l) == [op |-> op, asm |-> a, label |-> l]

CanCall == panic = "none" /\ Len(trace) < MaxCalls

\* ---- encoder actions ----------------------------------------------------

\* Asm::nop
Nop(a) ==
    /\ CanCall /\ a \in asms
    /\ buf' = [buf EXCEPT ![a] = emit(@, <<OpcNop>>)]
    /\ trace' = Append(trace, Call("nop", a, 0))
    /\ UNCHANGED <<insn, asms, location, offsets, lstate, panic, npatched>>
    /\ UNCHANGED <<rtvars, appvars>>

\* a client loop of NopRunLen calls of Asm::nop
NopRun(a) ==
    /\ CanCall /\ a \in asms
    /\ buf' = [buf EXCEPT ![a] = emit(@, [i \in 1..NopRunLen |-> OpcNop])]
    /\ trace' = Append(trace, Call("nops", a, 0))
    /\ UNCHANGED <<insn, asms, location, offsets, lstate, panic, npatched>>
    /\ UNCHANGED <<rtvars, appvars>>

\* a label jump that records its fix-up and never resolves it
encode_jmp_label_unresolved(a, opc, l) ==
    /\ buf' = [buf EXCEPT ![a] = emit(emit(@, opc), <<0, 0, 0, 0>>)]
    /\ offsets' = [offsets EXCEPT ![l] = record_offset(@, Len(buf[a]) + Len(opc))]
    /\ UNCHANGED <<insn, asms, location, lstate, panic, npatched>>

\* Asm::encode_jmp_label
encode_jmp_label(a, opc, l) ==
    LET b1 == emit(buf[a], opc)
        offs == record_offset(offsets[l], Len(b1))
        b2 == emit(b1, <<0, 0, 0, 0>>)
    IN \E r \in resolve(b2, npatched[a], location[l], offs) :
        /\ buf' = [buf EXCEPT ![a] = r.buf]
        /\ npatched' = [npatched EXCEPT ![a] = r.np]
        /\ offsets' = [offsets EXCEPT ![l] = r.offsets]
        /\ panic' = r.panic
        /\ UNCHANGED <<insn, asms, location, lstate>>

\* impl Jmp<&mut Label> for Asm
Jmp(a, l) ==
    /\ CanCall /\ a \in asms /\ lstate[l] = "live"
    /\ trace' = Append(trace, Call("jmp", a, l))
    /\ encode_jmp_label(a, <<OpcJmp>>, l)
    /\ UNCHANGED <<rtvars, appvars>>

\* a bind that overwrites the location without the is_bound assertion
label_bind_again(loc, at) == Some(at)

\* Label::bind: the new location, or None when the assertion fails
label_bind(loc, at) == IF loc # None THEN None ELSE Some(at)

\* Asm::bind
Bind(a, l) ==
    /\ CanCall /\ a \in asms /\ lstate[l] = "live"
    /\ trace' = Append(trace, Call("bind", a, l))
    /\ LET newloc == label_bind(location[l], Len(buf[a])) IN
        IF newloc = None
        THEN /\ panic' = "assertion failed: !self.is_bound()"
             /\ UNCHANGED <<insn, asms, buf, location, offsets, lstate, npatched>>
        ELSE \E r \in resolve(buf[a], npatched[a], newloc, offsets[l]) :
             /\ location' = [location EXCEPT ![l] = newloc]
             /\ buf' = [buf EXCEPT ![a] = r.buf]
             /\ npatched' = [npatched EXCEPT ![a] = r.np]
             /\ offsets' = [offsets EXCEPT ![l] = r.offsets]
             /\ panic' = r.panic
             /\ UNCHANGED <<insn, asms, lstate>>
    /\ UNCHANGED <<rtvars, appvars>>

\* a drop that checks the fix-up set only
label_drop_unbound_ok(loc, offs) ==
    IF offs # {} THEN "assertion failed: self.offsets.is_empty()" ELSE "ok"

\* impl Drop for Label: "ok" or the failed assertion
label_drop(loc, offs) ==
    IF loc = None THEN "assertion failed: self.is_bound()"
    ELSE IF offs # {} THEN "assertion failed: self.offsets.is_empty()"
    ELSE "ok"

DropLabel(l) ==
    /\ CanCall /\ lstate[l] = "live"
    /\ trace' = Append(trace, Call("drop", 0, l))
    /\ LET r == label_drop(location[l], offsets[l]) IN
        IF r = "ok"
        THEN /\ lstate' = [lstate EXCEPT ![l] = "dropped"]
             /\ UNCHANGED panic
        ELSE /\ panic' = r
             /\ UNCHANGED lstate
    /\ UNCHANGED <<insn, asms, buf, location, offsets, npatched>>
    /\ UNCHANGED <<rtvars, appvars>>

\* Asm::new for every encoder, Label::new for every label
InitAsmState ==
    /\ buf = [a \in Asms |-> <<>>]
    /\ location = [l \in Labels |-> None]
    /\ offsets = [l \in Labels |-> {}]
    /\ lstate = [l \in Labels |-> "live"]
    /\ panic = "none"
    /\ trace = <<>>
    /\ npatched = [a \in Asms |-> <<>>]

vars == <<asms, buf, location, offsets, lstate, panic, trace, npatched, insn,
          rt, mapped, prot, page, pc, arg, fn_start, fns, ncalls, jit_asm,
          cpu, bf, vm>>

\* no Runtime has been constructed
NoRuntime ==
    /\ rt = [buf |-> 0, len |-> 0, idx |-> 0]
    /\ mapped = FALSE /\ prot = {} /\ page = <<>>
    /\ pc = "idle" /\ arg = <<>> /\ fn_start = 0 /\ fns = <<>> /\ ncalls = 0
    /\ jit_asm = None

\* the client works with a single encoder
InitAsm == asms = {1} /\ InitAsmState /\ insn = NoInsn /\ NoRuntime /\ NoApps

NextAsm ==
    \/ \E a \in Asms : Nop(a)
    \/ \E a \in Asms : NopRun(a)
    \/ \E a \in Asms, l \in Labels : Jmp(a, l)
    \/ \E a \in Asms, l \in Labels : Bind(a, l)
    \/ \E l \in Labels : DropLabel(l)

SpecAsm == InitAsm /\ [][NextAsm]_vars

\* ---- the code runtime ---------------------------------------------------

PROT_NONE == {}
PROT_WRITE == {"W"}
PROT_READ_EXEC == {"R", "X"}

\* page-aligned addresses mmap may return
MmapAddrs == {PageSize, 3 * PageSize}

\* a capacity check without the assertion that the block fits
add_code_check_no_fit(idx, len, n) ==
    IF ~(idx < len) THEN "Runtime code page full"
    ELSE IF n = 0 THEN "Adding empty code not supported"
    ELSE "ok"

\* a capacity check that turns away a block that fills the page exactly
add_code_check_strict(idx, len, n) ==
    IF ~(idx < len) THEN "Runtime code page full"
    ELSE IF n = 0 THEN "Adding empty code not supported"
    ELSE IF ~(n < len - idx) THEN "Code does not fit on the runtime code page"
    ELSE "ok"

\* the three assertions of Runtime::add_code, in order: "ok" or the message
\* of the first one that fails (n is code.len())
add_code_check(idx, len, n) ==
    IF ~(idx < len) THEN "Runtime code page full"
    ELSE IF n = 0 THEN "Adding empty code not supported"
    ELSE IF ~(n <= len - idx) THEN "Code does not fit on the runtime code page"
    ELSE "ok"

\* a writable window that keeps the page readable and executable
unprotect_flags_rwx == {"R", "W", "X"}

\* the flags Runtime::unprotect passes to mprotect
unprotect_flags == PROT_WRITE

\* a page left writable when the window closes
protect_flags_rwx == {"R", "W", "X"}

\* the flags Runtime::protect passes to mprotect
protect_flags == PROT_READ_EXEC

\* a copy to the start of the page instead of the cursor
copy_to_page_start(pg, off, code) ==
    [i \in 1..Len(pg) |-> IF i <= Len(code) THEN code[i] ELSE pg[i]]

\* std::ptr::copy_nonoverlapping(code.as_ptr(), dst, code.len()) into the page,
\* off being dst - buf
copy_nonoverlapping(pg, off, code) ==
    [i \in 1..Len(pg) |->
        IF i > off /\ i <= off + Len(code) THEN code[i - off] ELSE pg[i]]

\* a cursor that moves one byte per block
idx_advance_one(idx, n) == idx + 1

\* self.idx += code.len()
idx_advance(idx, n) == idx + n

\* the code blocks a client hands in: n bytes counting up from seed
CodeBytes(n, seed) == [i \in 1..n |-> (seed + i - 1) % 256]

\* lengths tried at cursor idx: empty, short, exactly the rest, one more
CodeLens(idx) == {0, 1, 2, PageSize - idx, PageSize - idx + 1}

\* Runtime::new: the mapping is fresh (zero-filled), PROT_NONE, cursor at 0
InitRt ==
    /\ rt \in {[buf |-> b, len |-> PageSize, idx |-> 0] : b \in MmapAddrs}
    /\ mapped = TRUE
    /\ prot = PROT_NONE
    /\ page = [i \in 1..PageSize |-> 0]
    /\ pc = "idle" /\ arg = <<>> /\ fn_start = 0 /\ fns = <<>> /\ ncalls = 0
    /\ jit_asm = None
    /\ panic = "none"
    /\ asms = {} /\ InitAsmState /\ insn = NoInsn
    /\ NoApps

\* an add_code that opens the writable window before its assertions
AddCodeBegin_unprotect_first(code) ==
    /\ panic = "none" /\ mapped /\ pc = "idle" /\ ncalls < MaxAddCode
    /\ ncalls' = ncalls + 1
    /\ arg' = code
    /\ prot' = unprotect_flags
    /\ LET r == add_code_check(rt.idx, rt.len, Len(code)) IN
        IF r = "ok"
        THEN /\ fn_start' = rt.buf + rt.idx
             /\ pc' = "copy"
             /\ UNCHANGED panic
        ELSE /\ panic' = r
             /\ pc' = "check"
             /\ UNCHANGED fn_start
    /\ UNCHANGED <<rt, mapped, page, fns>>
    /\ UNCHANGED jit_asm
    /\ UNCHANGED <<asmvars, appvars>>

\* Runtime::add_code, up to and including its assertions
AddCodeBegin(code) ==
    /\ panic = "none" /\ mapped /\ pc = "idle" /\ ncalls < MaxAddCode
    /\ ncalls' = ncalls + 1
    /\ arg' = code
    /\ LET r == add_code_check(rt.idx, rt.len, Len(code)) IN
        IF r = "ok"
        THEN /\ fn_start' = rt.buf + rt.idx
             /\ pc' = "unprotect"
             /\ UNCHANGED panic
        ELSE /\ panic' = r
             /\ pc' = "check"
             /\ UNCHANGED fn_start
    /\ UNCHANGED <<rt, mapped, prot, page, fns>>
    /\ UNCHANGED jit_asm
    /\ UNCHANGED <<asmvars, appvars>>

\* Runtime::unprotect: mprotect(PROT_WRITE) succeeds, or fails and panics
Unprotect ==
    /\ panic = "none" /\ pc = "unprotect"
    /\ \/ prot' = unprotect_flags /\ pc' = "copy" /\ UNCHANGED panic
       \/ panic' = "Failed to W mprotect runtime code page" /\ UNCHANGED <<prot, pc>>
    /\ UNCHANGED <<rt, mapped, page, arg, fn_start, fns, ncalls>>
    /\ UNCHANGED jit_asm
    /\ UNCHANGED <<asmvars, appvars>>

\* the copy into the page; a store to a page without PROT_WRITE faults
Copy ==
    /\ panic = "none" /\ pc = "copy"
    /\ IF "W" \in prot
       THEN /\ page' = copy_nonoverlapping(page, fn_start - rt.buf, arg)
            /\ pc' = "protect"
            /\ UNCHANGED panic
       ELSE /\ panic' = "SIGSEGV"
            /\ UNCHANGED <<page, pc>>
    /\ UNCHANGED <<rt, mapped, prot, arg, fn_start, fns, ncalls>>
    /\ UNCHANGED jit_asm
    /\ UNCHANGED <<asmvars, appvars>>

\* Runtime::protect: mprotect(PROT_READ | PROT_EXEC) succeeds, or fails and panics
Protect ==
    /\ panic = "none" /\ pc = "protect"
    /\ \/ prot' = protect_flags /\ pc' = "advance" /\ UNCHANGED panic
       \/ panic' = "Failed to RX mprotect runtime code page" /\ UNCHANGED <<prot, pc>>
    /\ UNCHANGED <<rt, mapped, page, arg, fn_start, fns, ncalls>>
    /\ UNCHANGED jit_asm
    /\ UNCHANGED <<asmvars, appvars>>

\* the rest of Runtime::add_code: advance the cursor, return fn_start as F
AddCodeEnd ==
    /\ panic = "none" /\ pc = "advance"
    /\ rt' = [rt EXCEPT !.idx = idx_advance(@, Len(arg))]
    /\ fns' = Append(fns, [fn |-> fn_start, code |-> arg])
    /\ pc' = "idle" /\ arg' = <<>>
    /\ UNCHANGED <<mapped, prot, page, fn_start, ncalls, panic>>
    /\ UNCHANGED jit_asm
    /\ UNCHANGED <<asmvars, appvars>>

\* impl Drop for Runtime: munmap, by the owner or while a panic unwinds
DropRuntime ==
    /\ mapped /\ (pc = "idle" \/ panic # "none")
    /\ mapped' = FALSE
    /\ prot' = PROT_NONE
    /\ UNCHANGED <<rt, page, pc, arg, fn_start, fns, ncalls, panic>>
    /\ UNCHANGED jit_asm
    /\ UNCHANGED <<asmvars, appvars>>

\* Runtime::dump: the assertion, then the first idx bytes of the page go to
\* jit.asm; reading from a page without PROT_READ faults, the write may fail
Dump ==
    /\ panic = "none" /\ mapped /\ pc = "idle"
    /\ IF ~(rt.idx <= rt.len)
       THEN panic' = "assertion failed: self.idx <= self.len" /\ UNCHANGED jit_asm
       ELSE IF rt.idx > 0 /\ "R" \notin prot
       THEN panic' = "SIGSEGV" /\ UNCHANGED jit_asm
       ELSE \/ jit_asm' = Some(SubSeq(page, 1, rt.idx)) /\ UNCHANGED panic
            \/ panic' = "Failed to write file" /\ UNCHANGED jit_asm
    /\ UNCHANGED <<rt, mapped, prot, page, pc, arg, fn_start, fns, ncalls>>
    /\ UNCHANGED <<asmvars, appvars>>

NextRt ==
    \/ \E n \in CodeLens(rt.idx), seed \in {144, 195} :
            AddCodeBegin(CodeBytes(n, seed))
    \/ Unprotect
    \/ Copy
    \/ Protect
    \/ AddCodeEnd
    \/ DropRuntime

SpecRt == InitRt /\ [][NextRt]_vars

\* a client that also calls dump between its add_code calls; the mapping is
\* at the first address and every block is filled from the same seed
InitDump == InitRt /\ rt.buf = PageSize

NextDump ==
    \/ \E n \in CodeLens(rt.idx) : AddCodeBegin(CodeBytes(n, OpcNop))
    \/ Unprotect
    \/ Copy
    \/ Protect
    \/ AddCodeEnd
    \/ Dump
    \/ DropRuntime

SpecDump == InitDump /\ [][NextDump]_vars

\* ---- operands ------------------------------------------------------------

\* a general-purpose register of the family of `bits` bits with encoding
\* index i; high marks ah, ch, dh, bh (the 8-bit registers that share the
\* indices 4..7 with spl, bpl, sil, dil)
Reg(bits, i) == [kind |-> "reg", bits |-> bits, idx |-> i, high |-> FALSE]
RegHigh(i) == [kind |-> "reg", bits |-> 8, idx |-> i, high |-> TRUE]

Reg64 == {Reg(64, i) : i \in 0..15}
Reg32 == {Reg(32, i) : i \in 0..15}
Reg16 == {Reg(16, i) : i \in 0..15}
Reg8 == {Reg(8, i) : i \in 0..15} \cup {RegHigh(i) : i \in 4..7}

Regs(bits) ==
    IF bits = 64 THEN Reg64 ELSE IF bits = 32 THEN Reg32
    ELSE IF bits = 16 THEN Reg16 ELSE Reg8

\* Reg::is_ext, Reg::need_rex, Reg::rexw, Reg::need_sib, Reg::is_pc_rel
is_ext(r) == r.idx >= 8
need_rex(r) == r.bits = 64 \/ is_ext(r) \/ (r.bits = 8 /\ ~r.high /\ r.idx >= 4)
rexw(r) == r.bits = 64
need_sib(r) == r.idx % 8 = 4
is_pc_rel(r) == r.idx % 8 = 5

\* Mem8/16/32/64::indirect, ::indirect_disp, ::indirect_base_index
indirect(bits, base) ==
    [kind |-> "mem", bits |-> bits, mode |-> "Indirect",
     base |-> base, index |-> Reg(64, 0), disp |-> 0]
indirect_disp(bits, base, disp) ==
    [kind |-> "mem", bits |-> bits, mode |-> "IndirectDisp",
     base |-> base, index |-> Reg(64, 0), disp |-> disp]
indirect_base_index(bits, base, index) ==
    [kind |-> "mem", bits |-> bits, mode |-> "IndirectBaseIndex",
     base |-> base, index |-> index, disp |-> 0]

\* Mem::is_64
is_64(m) == m.bits = 64

\* displacements a client passes: a positive and a negative i32, and zero
Disps == {287454020, -8, 0}

Mems(bits) ==
    {indirect(bits, b) : b \in Reg64}
    \cup {indirect_disp(bits, b, d) : b \in Reg64, d \in Disps}
    \cup {indirect_base_index(bits, b, i) : b \in Reg64, i \in Reg64}

\* the primitive integer types an immediate is built from
IntTypes ==
    {[bytes |-> n, signed |-> s] : n \in {1, 2, 4, 8}, s \in BOOLEAN}

\* values of an integer type that are tried (64-bit and u32 values are taken
\* from the i32 range)
IntValues(t) ==
    IF t.signed
    THEN {-1, 1, 127} \cup (IF t.bytes = 1 THEN {-128} ELSE {-32768, 187})
    ELSE {2, 170} \cup (IF t.bytes = 1 THEN {255} ELSE {43707})

\* impl From<$from> for $name: the source's to_ne_bytes() copied to the front
\* of a zeroed buffer of `size` bytes
imm_from(size, t, x) ==
    LET imm == to_ne_bytes(x, t.bytes)
    IN [kind |-> "imm", size |-> size,
        bytes |-> [i \in 1..size |-> IF i <= Len(imm) THEN imm[i] ELSE 0]]

\* the From impls of Imm8, Imm16, Imm32, Imm64: every type that is not wider
ImmSources(size) == {t \in IntTypes : t.bytes <= size}

Imms(size) ==
    {imm_from(size, t, x) : <<t, x>> \in
        {tx \in ImmSources(size) \X {-32768, -128, -1, 1, 2, 127, 170, 187, 255, 43707} :
            tx[2] \in IntValues(tx[1])}}

\* ---- instruction encoding ------------------------------------------------

\* fn rex
rex(w, r, x, b) ==
    64 + 8 * (IF w THEN 1 ELSE 0) + 4 * ((r \div 8) % 2)
       + 2 * ((x \div 8) % 2) + ((b \div 8) % 2)

\* fn modrm
modrm(mod_, reg, rm) == 64 * (mod_ % 4) + 8 * (reg % 8) + (rm % 8)

\* fn sib
sib(scale, index, base) == 64 * (scale % 4) + 8 * (index % 8) + (base % 8)

\* Asm::emit_optional
RECURSIVE emit_optional(_, _)
emit_optional(b, bytes) ==
    IF bytes = <<>> THEN b
    ELSE emit_optional(IF Head(bytes) = None THEN b ELSE Append(b, Unwrap(Head(bytes))),
                       Tail(bytes))

\* legacy_prefix of EncodeRR, EncodeR (by register type) and of EncodeMR,
\* EncodeM (by memory operand type)
legacy_prefix(op) == IF op.bits = 16 THEN Some(102) ELSE None

\* EncodeRR::rex
EncodeRR_rex(op1, op2) ==
    IF need_rex(op1) \/ need_rex(op2)
    THEN Some(rex(rexw(op1), op2.idx, 0, op1.idx))
    ELSE None

\* EncodeR::rex
EncodeR_rex(op1) ==
    IF need_rex(op1) THEN Some(rex(rexw(op1), 0, 0, op1.idx)) ELSE None

\* EncodeMR::rex
EncodeMR_rex(op1, op2) ==
    IF is_64(op1) \/ is_ext(op2) \/ is_ext(op1.base) \/ is_ext(op1.index)
    THEN Some(rex(is_64(op1), op2.idx, op1.index.idx, op1.base.idx))
    ELSE None

\* EncodeM::rex
EncodeM_rex(op1) ==
    IF is_64(op1) \/ is_ext(op1.base) \/ is_ext(op1.index)
    THEN Some(rex(is_64(op1), 0, op1.index.idx, op1.base.idx))
    ELSE None

\* what an encode function leaves behind: the buffer and the panic, if any
Done(b) == [buf |-> b, panic |-> "none"]
Abort(b, msg) == [buf |-> b, panic |-> msg]

\* an encode_rr that puts op1 into ModR/M.reg and op2 into ModR/M.rm
encode_rr_swapped(b, opc, op1, op2) ==
    LET m == modrm(3, op1.idx, op2.idx)
        b1 == emit_optional(b, <<legacy_prefix(op1), EncodeRR_rex(op1, op2)>>)
        b2 == emit(b1, opc)
    IN Done(emit(b2, <<m>>))

\* Asm::encode_rr
encode_rr(b, opc, op1, op2) ==
    LET m == modrm(3, op2.idx, op1.idx)
        b1 == emit_optional(b, <<legacy_prefix(op1), EncodeRR_rex(op1, op2)>>)
        b2 == emit(b1, opc)
    IN Done(emit(b2, <<m>>))

\* an encode_oi that puts the whole register index into the opcode byte
encode_oi_full_idx(b, opc, op1, op2) ==
    LET o == opc + op1.idx
        b1 == emit_optional(b, <<legacy_prefix(op1), EncodeR_rex(op1)>>)
        b2 == emit(b1, <<o>>)
    IN Done(emit(b2, op2.bytes))

\* Asm::encode_oi
encode_oi(b, opc, op1, op2) ==
    LET o == opc + (op1.idx % 8)
        b1 == emit_optional(b, <<legacy_prefix(op1), EncodeR_rex(op1)>>)
        b2 == emit(b1, <<o>>)
    IN Done(emit(b2, op2.bytes))

\* Asm::encode_r
encode_r(b, opc, opc_ext, op1) ==
    LET m == modrm(3, opc_ext, op1.idx)
        b1 == emit_optional(b, <<legacy_prefix(op1), EncodeR_rex(op1)>>)
    IN Done(emit(b1, <<opc, m>>))

\* a mode match that picks mod and rm without asserting anything
addr_mode_unchecked(op1) ==
    IF op1.mode = "Indirect" THEN [panic |-> "none", mode |-> 0, rm |-> op1.base.idx]
    ELSE IF op1.mode = "IndirectDisp"
    THEN [panic |-> "none", mode |-> 2, rm |-> op1.base.idx]
    ELSE [panic |-> "none", mode |-> 0, rm |-> 4]

\* `match op1.mode()` at the head of encode_m, encode_mi and encode_mr: the
\* assertions of the mode, then (mod, rm)
addr_mode(op1) ==
    IF op1.mode = "Indirect"
    THEN IF ~(~need_sib(op1.base) /\ ~is_pc_rel(op1.base))
         THEN [panic |-> "assertion failed: !op1.base().need_sib() && !op1.base().is_pc_rel()"]
         ELSE [panic |-> "none", mode |-> 0, rm |-> op1.base.idx]
    ELSE IF op1.mode = "IndirectDisp"
    THEN IF ~(~need_sib(op1.base))
         THEN [panic |-> "assertion failed: !op1.base().need_sib()"]
         ELSE [panic |-> "none", mode |-> 2, rm |-> op1.base.idx]
    ELSE IF ~(~is_pc_rel(op1.base))
         THEN [panic |-> "assertion failed: !op1.base().is_pc_rel()"]
         ELSE IF op1.index = Reg(64, 4)
         THEN [panic |-> "assertion failed: !matches!(op1.index(), Reg64::rsp)"]
         ELSE [panic |-> "none", mode |-> 0, rm |-> 4]

\* a tail that shortens a displacement in -128..127 to a disp8 and drops a
\* zero displacement
addr_tail_disp8(b, op1) ==
    IF op1.mode = "Indirect" THEN b
    ELSE IF op1.mode = "IndirectDisp"
    THEN (IF op1.disp = 0 THEN b
          ELSE IF op1.disp \in -128..127 THEN emit(b, to_ne_bytes(op1.disp, 1))
          ELSE emit(b, to_ne_bytes(op1.disp, 4)))
    ELSE emit(b, <<sib(0, op1.index.idx, op1.base.idx)>>)

\* `match op1.mode()` after the opcode and ModR/M: displacement or SIB byte
addr_tail(b, op1) ==
    IF op1.mode = "Indirect" THEN b
    ELSE IF op1.mode = "IndirectDisp" THEN emit(b, to_ne_bytes(op1.disp, 4))
    ELSE emit(b, <<sib(0, op1.index.idx, op1.base.idx)>>)

\* Asm::encode_m
encode_m(b, opc, opc_ext, op1) ==
    LET am == addr_mode(op1) IN
    IF am.panic # "none" THEN Abort(b, am.panic)
    ELSE LET m == modrm(am.mode, opc_ext, am.rm)
             b1 == emit_optional(b, <<legacy_prefix(op1), EncodeM_rex(op1)>>)
             b2 == emit(b1, <<opc, m>>)
         IN Done(addr_tail(b2, op1))

\* Asm::encode_mi
encode_mi(b, opc, opc_ext, op1, op2) ==
    LET am == addr_mode(op1) IN
    IF am.panic # "none" THEN Abort(b, am.panic)
    ELSE LET m == modrm(am.mode, opc_ext, am.rm)
             b1 == emit_optional(b, <<legacy_prefix(op1), EncodeM_rex(op1)>>)
             b2 == emit(b1, <<opc, m>>)
             b3 == addr_tail(b2, op1)
         IN Done(emit(b3, op2.bytes))

\* Asm::encode_mr
encode_mr(b, opc, op1, op2) ==
    LET am == addr_mode(op1) IN
    IF am.panic # "none" THEN Abort(b, am.panic)
    ELSE LET m == modrm(am.mode, op2.idx, am.rm)
             b1 == emit_optional(b, <<legacy_prefix(op1), EncodeMR_rex(op1, op2)>>)
             b2 == emit(b1, <<opc, m>>)
         IN Done(addr_tail(b2, op1))

\* Asm::encode_rm
encode_rm(b, opc, op1, op2) == encode_mr(b, opc, op2, op1)

\* ---- instructions --------------------------------------------------------

Kinds(op1, op2) == <<op1.kind, op2.kind>>

\* the second operand of a call that takes one
NoOperand == [kind |-> "none"]

\* impl Mov<..> for Asm (insn/mov.rs): the encoding picked by the operand types
mov(b, op1, op2) ==
    IF Kinds(op1, op2) = <<"reg", "reg">>
    THEN encode_rr(b, IF op1.bits = 8 THEN <<136>> ELSE <<137>>, op1, op2)
    ELSE IF Kinds(op1, op2) = <<"mem", "reg">>
    THEN encode_mr(b, IF op1.bits = 8 THEN 136 ELSE 137, op1, op2)
    ELSE IF Kinds(op1, op2) = <<"reg", "mem">>
    THEN encode_rm(b, IF op1.bits = 8 THEN 138 ELSE 139, op1, op2)
    ELSE IF Kinds(op1, op2) = <<"reg", "imm">>
    THEN encode_oi(b, IF op1.bits = 8 THEN 176 ELSE 184, op1, op2)
    ELSE encode_mi(b, 199, 0, op1, op2)

\* the operand widths of the four register and memory operand families
Widths == {8, 16, 32, 64}

\* the operand pairs mov is implemented for, for the widths asked for
MovCalls(widths) ==
    UNION {
        {[op |-> "mov", op1 |-> a, op2 |-> b] : a \in Regs(w), b \in Regs(w)}
        \cup {[op |-> "mov", op1 |-> a, op2 |-> b] : a \in Mems(w), b \in Regs(w)}
        \cup {[op |-> "mov", op1 |-> a, op2 |-> b] : a \in Regs(w), b \in Mems(w)}
        \cup {[op |-> "mov", op1 |-> a, op2 |-> b] : a \in Regs(w), b \in Imms(w \div 8)}
        : w \in widths}
    \cup {[op |-> "mov", op1 |-> a, op2 |-> b] : a \in Mems(16), b \in Imms(2)}

\* impl Sub<Reg64, Reg64>, impl Sub<MemOp, Imm8> for Asm (insn/sub.rs)
sub(b, op1, op2) ==
    IF Kinds(op1, op2) = <<"reg", "reg">>
    THEN encode_rr(b, <<41>>, op1, op2)
    ELSE encode_mi(b, 131, 5, op1, op2)

\* sub r64, r64 and sub on the byte cells of a client (examples/bf.rs)
SubCalls ==
    {[op |-> "sub", op1 |-> a, op2 |-> b] : a \in Reg64, b \in Reg64}
    \cup {[op |-> "sub", op1 |-> a, op2 |-> b] : a \in Mems(8), b \in Imms(1)}

\* impl Dec<..> for Asm (insn/dec.rs)
dec(b, op1) ==
    IF op1.kind = "reg" THEN encode_r(b, 255, 1, op1)
    ELSE encode_m(b, IF op1.bits = 8 THEN 254 ELSE 255, 1, op1)

DecCalls ==
    {[op |-> "dec", op1 |-> a, op2 |-> NoOperand] :
        a \in Reg64 \cup Reg32 \cup UNION {Mems(w) : w \in Widths}}

\* impl Cmovz<Reg64, Reg64> for Asm (insn/cmovz.rs)
cmovz(b, op1, op2) == encode_rr(b, <<15, 68>>, op2, op1)

CmovzCalls == {[op |-> "cmovz", op1 |-> a, op2 |-> b] : a \in Reg64, b \in Reg64}

\* a cmovnz that hands its operands to the RR form in the order of mov
cmovnz_unswapped(b, op1, op2) == encode_rr(b, <<15, 69>>, op1, op2)

\* impl Cmovnz<Reg64, Reg64> for Asm (insn/cmovnz.rs)
cmovnz(b, op1, op2) == encode_rr(b, <<15, 69>>, op2, op1)

CmovnzCalls == {[op |-> "cmovnz", op1 |-> a, op2 |-> b] : a \in Reg64, b \in Reg64}

\* the call returns or panics; the call made is kept in the history
Returned(a, r) ==
    /\ buf' = [buf EXCEPT ![a] = r.buf]
    /\ panic' = r.panic
    /\ trace' = Append(trace, insn)
    /\ insn' = NoInsn
    /\ UNCHANGED <<asms, location, offsets, lstate, npatched>>
    /\ UNCHANGED <<rtvars, appvars>>

\* asm.mov(op1, op2)
Mov(a) ==
    /\ panic = "none" /\ a \in asms /\ insn.op = "mov"
    /\ Returned(a, mov(buf[a], insn.op1, insn.op2))

\* asm.sub(op1, op2)
Sub(a) ==
    /\ panic = "none" /\ a \in asms /\ insn.op = "sub"
    /\ Returned(a, sub(buf[a], insn.op1, insn.op2))

\* asm.dec(op1)
Dec(a) ==
    /\ panic = "none" /\ a \in asms /\ insn.op = "dec"
    /\ Returned(a, dec(buf[a], insn.op1))

\* asm.cmovz(op1, op2)
Cmovz(a) ==
    /\ panic = "none" /\ a \in asms /\ insn.op = "cmovz"
    /\ Returned(a, cmovz(buf[a], insn.op1, insn.op2))

\* asm.cmovnz(op1, op2)
Cmovnz(a) ==
    /\ panic = "none" /\ a \in asms /\ insn.op = "cmovnz"
    /\ Returned(a, cmovnz(buf[a], insn.op1, insn.op2))

\* a fresh encoder and one instruction call with its operands
InitEnc ==
    /\ asms = {1} /\ InitAsmState /\ NoRuntime /\ NoApps
    /\ insn \in MovCalls(Widths) \cup SubCalls \cup DecCalls \cup CmovzCalls
                \cup CmovnzCalls

NextEnc ==
    \/ \E a \in Asms : Mov(a)
    \/ \E a \in Asms : Sub(a)
    \/ \E a \in Asms : Dec(a)
    \/ \E a \in Asms : Cmovz(a)
    \/ \E a \in Asms : Cmovnz(a)

SpecEnc == InitEnc /\ [][NextEnc]_vars

\* the conversions a client can write: ImmN::from(x) for x of a source type
ImmCalls ==
    {[op |-> "from", size |-> n, type |-> t, x |-> x] :
        <<n, t, x>> \in
            {ntx \in {1, 2, 4, 8} \X IntTypes
                        \X {-32768, -128, -1, 1, 2, 127, 170, 187, 255, 43707} :
                ntx[2] \in ImmSources(ntx[1]) /\ ntx[3] \in IntValues(ntx[2])}}

\* ImmN::from(x): the call and the immediate it returned go to the history
From ==
    /\ panic = "none" /\ insn.op = "from"
    /\ trace' = Append(trace, [call |-> insn, imm |-> imm_from(insn.size, insn.type, insn.x)])
    /\ insn' = NoInsn
    /\ UNCHANGED <<asms, buf, location, offsets, lstate, panic, npatched>>
    /\ UNCHANGED <<rtvars, appvars>>

\* one conversion of an integer into an immediate
InitImm ==
    asms = {1} /\ InitAsmState /\ NoRuntime /\ NoApps /\ insn \in ImmCalls

NextImm == From

SpecImm == InitImm /\ [][NextImm]_vars

\* ---- what the claims read off the call history --------------------------

\* bytes a call appends to its encoder
CallSize(c) ==
    IF c.op = "nop" THEN 1
    ELSE IF c.op = "nops" THEN NopRunLen
    ELSE IF c.op = "jmp" THEN 5
    ELSE 0

\* length of encoder a's buffer when call number i was issued
RECURSIVE LenBefore(_, _)
LenBefore(a, i) ==
    IF i <= 1 THEN 0
    ELSE LenBefore(a, i - 1)
         + (IF trace[i - 1].asm = a THEN CallSize(trace[i - 1]) ELSE 0)

\* offset of the first placeholder byte of the jump issued as call i
PatchOffset(i) == LenBefore(trace[i].asm, i) + 1

IsJmpTo(i, l) == trace[i].op = "jmp" /\ trace[i].label = l
IsBindOf(k, l) == trace[k].op = "bind" /\ trace[k].label = l

\* call k is the bind that bound l (a later bind of l panics)
IsFirstBindOf(k, l) ==
    IsBindOf(k, l) /\ \A m \in 1..(k - 1) : ~IsBindOf(m, l)

\* every jump to l and bind of l went to the same encoder
OneEncoder(l) ==
    \A i, j \in DOMAIN trace :
        (trace[i].label = l /\ trace[j].label = l
            /\ trace[i].op \in {"jmp", "bind"} /\ trace[j].op \in {"jmp", "bind"})
        => trace[i].asm = trace[j].asm

\* the four bytes at offset po read as a little-endian two's-complement i32
SignedLE32(b, po) ==
    b[po + 1] + 256 * b[po + 2] + 65536 * b[po + 3]
    + 16777216 * (IF b[po + 4] >= 128 THEN b[po + 4] - 256 ELSE b[po + 4])

LastCall == trace[Len(trace)]

\* ---- claims -------------------------------------------------------------

\* C1: for every jump to a label L emitted by one encoder, before or after
\* bind(L): once L is bound, the four placeholder bytes of the jump hold the
\* little-endian two's-complement encoding of target - patch_offset - 4, where
\* target is the buffer length when bind(L) was called.
C1_Rel32Patched ==
    \A l \in Labels : \A i, k \in DOMAIN trace :
        (OneEncoder(l) /\ IsJmpTo(i, l) /\ IsFirstBindOf(k, l))
        => LET a == trace[i].asm
               po == PatchOffset(i)
               target == LenBefore(a, k)
           IN /\ po + 4 <= Len(buf[a])
              /\ SignedLE32(buf[a], po) = target - po - 4

\* C1 witness: jmp L, 0x1ff nops, bind L, jmp L on one encoder: a forward
\* rel32 of 0x1ff (E9 FF 01 00 00) and a backward one (-5) are both in place.
C1_Witness ==
    /\ panic = "none" /\ Len(trace) = 4
    /\ IsJmpTo(1, 1) /\ trace[2].op = "nops" /\ IsBindOf(3, 1) /\ IsJmpTo(4, 1)
    /\ SubSeq(buf[1], 1, 5) = <<233, 255, 1, 0, 0>>
    /\ SubSeq(buf[1], 517, 521) = <<233, 251, 255, 255, 255>>

\* C2: for every interleaving of jumps to L and filler before bind(L): until
\* the bind the recorded fix-ups are exactly the placeholders of the jumps and
\* none is patched; when bind returns each has been patched exactly once and
\* the fix-up set is empty.
C2_PatchedOnceAndDrained ==
    \A l \in Labels :
        OneEncoder(l) =>
            IF location[l] = None
            THEN /\ offsets[l] = {PatchOffset(i) : i \in {j \in DOMAIN trace : IsJmpTo(j, l)}}
                 /\ \A i \in DOMAIN trace :
                        IsJmpTo(i, l) => PatchOffset(i) \notin DOMAIN npatched[trace[i].asm]
            ELSE /\ offsets[l] = {}
                 /\ \A i \in DOMAIN trace :
                        IsJmpTo(i, l) =>
                            /\ PatchOffset(i) \in DOMAIN npatched[trace[i].asm]
                            /\ npatched[trace[i].asm][PatchOffset(i)] = 1

\* C2 witness: two jumps to L with filler between them, then bind(L).
C2_Witness ==
    /\ panic = "none" /\ Len(trace) = 4
    /\ IsJmpTo(1, 1) /\ trace[2].op = "nop" /\ IsJmpTo(3, 1) /\ IsBindOf(4, 1)
    /\ offsets[1] = {}
    /\ npatched[1] = (1 :> 1) @@ (7 :> 1)

\* C3: a label is bound at most once: bind on a label whose location is set
\* panics, and no step changes a location that is set.
C3_BindOnce ==
    [][\A l \in Labels :
        location[l] # None =>
            /\ location'[l] = location[l]
            /\ (trace' # trace /\ trace'[Len(trace')].op = "bind"
                    /\ trace'[Len(trace')].label = l)
               => panic' # "none"]_vars

\* C3 witness: a second bind of a bound label has panicked, the location is
\* still the one of the first bind.
C3_Witness ==
    /\ panic = "assertion failed: !self.is_bound()"
    /\ Len(trace) = 3
    /\ IsBindOf(1, 1) /\ trace[2].op = "nop" /\ IsBindOf(3, 1)
    /\ location[1] = Some(0)

\* C4: destroying a label panics unless the label is bound and its fix-up
\* set is empty; a label is only ever destroyed bound and without fix-ups.
C4_DropChecked ==
    \A l \in Labels :
        /\ lstate[l] = "dropped" => (location[l] # None /\ offsets[l] = {})
        /\ (trace # <<>> /\ LastCall.op = "drop" /\ LastCall.label = l)
           => ((panic # "none") <=> ~(location[l] # None /\ offsets[l] = {}))
        /\ (trace # <<>> /\ LastCall.op = "drop" /\ LastCall.label = l /\ panic = "none")
           => lstate[l] = "dropped"

\* C4 witness: a label that was jumped to and never bound is dropped: panic.
C4_Witness ==
    /\ Len(trace) = 2 /\ IsJmpTo(1, 1)
    /\ LastCall.op = "drop" /\ LastCall.label = 1
    /\ location[1] = None /\ offsets[1] = {1}
    /\ panic = "assertion failed: self.is_bound()"

\* C5: a bound label has an empty fix-up set after every encoder operation,
\* and a jump emitted to an already-bound label has its displacement in place
\* when the jump returns.
C5_BoundIsQuiescent ==
    \A l \in Labels :
        (OneEncoder(l) /\ location[l] # None) =>
            /\ offsets[l] = {}
            /\ (trace # <<>> /\ IsJmpTo(Len(trace), l)) =>
                LET b == buf[LastCall.asm]
                IN SignedLE32(b, Len(b) - 4) = Unwrap(location[l]) - Len(b)

\* C5 witness: a jump to a label bound earlier has just been emitted.
C5_Witness ==
    /\ panic = "none" /\ Len(trace) = 3
    /\ IsBindOf(1, 2) /\ trace[2].op = "nop" /\ IsJmpTo(3, 2)
    /\ offsets[2] = {}
    /\ buf[1] = <<144, 233, 250, 255, 255, 255>>

\* ---- what the runtime claims read ----------------------------------------

CapacityPanics ==
    {"Runtime code page full", "Adding empty code not supported",
     "Code does not fit on the runtime code page"}

DumpPanics == {"Failed to write file"}

MprotectPanics ==
    {"Failed to W mprotect runtime code page",
     "Failed to RX mprotect runtime code page"}

\* the input of the call in progress is non-empty and at most len - idx long
\* (idx keeps its value of the call's start until the call returns)
InputFits == Len(arg) > 0 /\ Len(arg) <= rt.len - rt.idx

\* the page holds block i as it was handed in
BlockIntact(i) ==
    \A j \in 1..Len(fns[i].code) :
        page[fns[i].fn - rt.buf + j] = fns[i].code[j]

\* total length of the first k returned blocks
RECURSIVE SumLens(_)
SumLens(k) == IF k = 0 THEN 0 ELSE SumLens(k - 1) + Len(fns[k].code)

\* C6: add_code gets past its capacity checks iff the input is non-empty and
\* at most len - idx long, and aborts there otherwise; a call that got past
\* them returns unless one of its two mprotect calls fails.
C6_AddCodeCapacity ==
    /\ pc # "idle" =>
        /\ (panic \in CapacityPanics) <=> ~InputFits
        /\ (pc = "check") <=> ~InputFits
    /\ panic \in {"none"} \cup CapacityPanics \cup MprotectPanics \cup DumpPanics
    /\ ncalls = Len(fns) + (IF pc = "idle" THEN 0 ELSE 1)
    /\ \A i \in DOMAIN fns :
        /\ Len(fns[i].code) > 0
        /\ (fns[i].fn - rt.buf) + Len(fns[i].code) <= rt.len

\* C6 witness: a one-byte block, then a block of exactly the remaining 4095
\* bytes were accepted; the page is full and a further one-byte block aborts.
C6_Witness ==
    /\ Len(fns) = 2 /\ Len(fns[1].code) = 1 /\ Len(fns[2].code) = PageSize - 1
    /\ rt.idx = rt.len
    /\ Len(arg) = 1 /\ pc = "check" /\ panic = "Runtime code page full"

\* C7: in every state of the runtime, inside and outside of add_code and after
\* a failed mprotect, the page protection never holds both WRITE and EXEC.
C7_WriteXorExec == ~({"W", "X"} \subseteq prot)

\* C7 witness: a later add_code was aborted by the failing mprotect of
\* protect(): the page is left PROT_WRITE, not executable.
C7_Witness ==
    /\ panic = "Failed to RX mprotect runtime code page"
    /\ Len(fns) = 1 /\ pc = "protect" /\ mapped
    /\ prot = PROT_WRITE

\* C8: the page is writable only between the unprotect and the protect step
\* of an add_code call; it is PROT_NONE from new() until the first add_code
\* opens its window, and PROT_READ|PROT_EXEC whenever no call is inside its
\* window after the first successful add_code.
C8_WritableWindow ==
    /\ "W" \in prot => pc \in {"copy", "protect"}
    /\ (mapped /\ rt.idx = 0 /\ pc \in {"idle", "check", "unprotect"}) => prot = PROT_NONE
    /\ (mapped /\ rt.idx > 0 /\ pc \in {"idle", "check", "unprotect"}) => prot = PROT_READ_EXEC

\* C8 witness: the window of a second add_code is open.
C8_Witness ==
    /\ panic = "none" /\ mapped /\ Len(fns) = 1
    /\ pc = "protect" /\ prot = PROT_WRITE

\* C9 as claimed: from the first returned function pointer until drop, at
\* every point, the page is executable and every deposited block is unchanged.
C9_AlwaysExecutable ==
    (mapped /\ fns # <<>>) =>
        /\ "X" \in prot
        /\ \A i \in DOMAIN fns : BlockIntact(i)

\* C9 amended: until drop every deposited block is unchanged at every point,
\* and the page is executable whenever no add_code call is between its
\* unprotect and its protect step.
C9_ExecutableOutsideWindow ==
    (mapped /\ fns # <<>>) =>
        /\ \A i \in DOMAIN fns : BlockIntact(i)
        /\ pc \notin {"copy", "protect"} => prot = PROT_READ_EXEC

\* C9 witness: two blocks were returned and a third add_code has copied its
\* block and not yet closed its window.
C9_Witness ==
    /\ panic = "none" /\ mapped /\ Len(fns) = 2
    /\ pc = "protect" /\ prot = PROT_WRITE
    /\ fns[1].code # fns[2].code

\* C10: the i-th successful add_code returned buf + (sum of the lengths of the
\* blocks before it), so the regions are contiguous and pairwise disjoint; the
\* cursor is the sum of the lengths of all returned blocks; when a call has
\* returned the page holds its block at the returned address.
C10_ReturnedRegion ==
    /\ \A i \in DOMAIN fns : fns[i].fn = rt.buf + SumLens(i - 1)
    /\ \A i, j \in DOMAIN fns :
        i < j => fns[i].fn + Len(fns[i].code) <= fns[j].fn
    /\ rt.idx = SumLens(Len(fns))
    /\ (pc = "idle" /\ fns # <<>>) => BlockIntact(Len(fns))

\* C10 witness: a two-byte block at buf, then a one-byte block at buf + 2.
C10_Witness ==
    /\ panic = "none" /\ pc = "idle" /\ Len(fns) = 2
    /\ fns[1] = [fn |-> rt.buf, code |-> <<195, 196>>]
    /\ fns[2] = [fn |-> rt.buf + 2, code |-> <<144>>]
    /\ rt.idx = 3
    /\ SubSeq(page, 1, 4) = <<195, 196, 144, 0>>

\* C11: in every reachable state of the runtime 0 <= idx <= len with
\* len = 4096, and no step of add_code or dump decreases idx.
C11_CursorInRange ==
    /\ [](rt.len = PageSize /\ 0 <= rt.idx /\ rt.idx <= rt.len)
    /\ [][rt'.idx >= rt.idx]_vars

\* C11 witness: two blocks have filled the page exactly, the cursor stands at
\* len, and dump has written all 4096 bytes to jit.asm.
C11_Witness ==
    /\ panic = "none" /\ pc = "idle" /\ Len(fns) = 2
    /\ rt.idx = rt.len /\ rt.len = PageSize
    /\ jit_asm = Some(page)

\* ---- what the encoding claims read ---------------------------------------

\* the instruction call that was made and the bytes it left in the buffer
TheCall == trace[1]
Code == buf[1]
Encoded == trace # <<>> /\ panic = "none"
Rejected == trace # <<>> /\ panic # "none"

\* number of legacy prefix bytes in front of the instruction
PrefixLen(c) == IF c.op1.bits = 16 /\ Code[1] = 102 THEN 1 ELSE 0

\* the byte after the legacy prefix is a REX prefix (0x40..0x4f); no opcode
\* of the instructions encoded here lies in that range
HasRex(c) == Code[PrefixLen(c) + 1] \in 64..79

\* the registers an operand puts into ModR/M.reg, ModR/M.rm, SIB.index, SIB.base
RegsOf(o) ==
    IF o.kind = "reg" THEN {o}
    ELSE IF o.kind = "mem"
    THEN (IF o.mode = "IndirectBaseIndex" THEN {o.base, o.index} ELSE {o.base})
    ELSE {}

\* spl, bpl, sil, dil, r8l..r15l
IsNewLowByte(o) == o.kind = "reg" /\ o.bits = 8 /\ ~o.high /\ o.idx >= 4

IsHighByte(o) == o.kind = "reg" /\ o.bits = 8 /\ o.high

\* C12 as claimed: in every form a REX prefix is emitted iff the operand size
\* is 64 bits, or a register in ModR/M.reg, ModR/M.rm, SIB.index or SIB.base
\* has index 8..15, or an 8-bit register operand is a new low-byte register.
C12_RexIffNeeded ==
    Encoded =>
        LET c == TheCall
        IN HasRex(c) <=>
            \/ c.op1.bits = 64
            \/ \E r \in RegsOf(c.op1) \cup RegsOf(c.op2) : r.idx >= 8
            \/ IsNewLowByte(c.op1) \/ IsNewLowByte(c.op2)

\* C12 failing input: mov [rax], dil is encoded as 88 38, without REX.
C12_Failing ==
    /\ Encoded
    /\ TheCall = [op |-> "mov", op1 |-> indirect(8, Reg(64, 0)), op2 |-> Reg(8, 7)]
    /\ Code = <<136, 56>>

\* C13 as claimed: an instruction that combines ah, ch, dh or bh with an
\* operand that forces a REX prefix (spl, bpl, sil, dil, r8l..r15l) is
\* rejected with an abort and leaves the buffer empty.
C13_HighByteRejected ==
    (trace # <<>>
        /\ \/ IsHighByte(TheCall.op1) /\ IsNewLowByte(TheCall.op2)
           \/ IsHighByte(TheCall.op2) /\ IsNewLowByte(TheCall.op1))
    => (panic # "none" /\ Code = <<>>)

\* C13 failing input: mov ah, sil returns and leaves 40 88 F4 in the buffer.
C13_Failing ==
    /\ Encoded
    /\ TheCall = [op |-> "mov", op1 |-> RegHigh(4), op2 |-> Reg(8, 6)]
    /\ Code = <<64, 136, 244>>

\* the memory operand of a call, if it has one
MemOperands(c) == {o \in {c.op1, c.op2} : o.kind = "mem"}

\* rsp or r12 (ModR/M.rm = 100 is the SIB escape), rbp or r13 (mod = 00 with
\* rm = 101 is disp32 / RIP-relative)
IsSibBase(r) == r.idx \in {4, 12}
IsPcRelBase(r) == r.idx \in {5, 13}

\* the operands C14 names
Misused(m) ==
    \/ m.mode = "Indirect" /\ (IsSibBase(m.base) \/ IsPcRelBase(m.base))
    \/ m.mode = "IndirectDisp" /\ IsSibBase(m.base)
    \/ m.mode = "IndirectBaseIndex" /\ (IsPcRelBase(m.base) \/ m.index.idx = 4)

\* C14: in the M, MI, MR and RM forms an Indirect operand whose base is rsp,
\* r12, rbp or r13, an Indirect+Disp32 operand whose base is rsp or r12, and a
\* Base+Index operand whose base is rbp or r13 or whose index is rsp is
\* rejected with a panic and no byte is appended; every other memory operand
\* is encoded.
C14_MisuseRejected ==
    trace # <<>> =>
        \A m \in MemOperands(TheCall) :
            IF Misused(m) THEN panic # "none" /\ Code = <<>>
            ELSE panic = "none" /\ Code # <<>>

\* C14 witness: mov r15, [rax + rsp] (RM form, index rsp) was rejected with
\* an empty buffer.
C14_Witness ==
    /\ Rejected
    /\ TheCall = [op |-> "mov", op1 |-> Reg(64, 15),
                  op2 |-> indirect_base_index(64, Reg(64, 0), Reg(64, 4))]
    /\ panic = "assertion failed: !matches!(op1.index(), Reg64::rsp)"
    /\ Code = <<>>

\* 1 for TRUE, 0 for FALSE
Bit(p) == IF p THEN 1 ELSE 0

\* the (opcode, op1, op2) a register-register call hands to the RR form
RRForm(c) ==
    IF c.op = "mov"
    THEN [opc |-> IF c.op1.bits = 8 THEN <<136>> ELSE <<137>>, op1 |-> c.op1, op2 |-> c.op2]
    ELSE IF c.op = "sub" THEN [opc |-> <<41>>, op1 |-> c.op1, op2 |-> c.op2]
    ELSE [opc |-> IF c.op = "cmovz" THEN <<15, 68>> ELSE <<15, 69>>,
          op1 |-> c.op2, op2 |-> c.op1]

IsRR(c) == c.op1.kind = "reg" /\ c.op2.kind = "reg"

\* [0x66 iff 16-bit] [REX iff needed] of a register-only instruction
RRPrefix(bits, reg, rm) ==
    (IF bits = 16 THEN <<102>> ELSE <<>>)
    \o (IF bits = 64 \/ reg.idx >= 8 \/ rm.idx >= 8
           \/ IsNewLowByte(reg) \/ IsNewLowByte(rm)
        THEN <<64 + 8 * Bit(bits = 64) + 4 * Bit(reg.idx >= 8) + Bit(rm.idx >= 8)>>
        ELSE <<>>)

\* reference encodings: mov rcx, rdx = 48 89 D1; mov ch, dh = 88 F5;
\* mov dil, sil = 40 88 F7
MovRRVectors ==
    /\ mov(<<>>, Reg(64, 1), Reg(64, 2)) = Done(<<72, 137, 209>>)
    /\ mov(<<>>, RegHigh(5), RegHigh(6)) = Done(<<136, 245>>)
    /\ mov(<<>>, Reg(8, 7), Reg(8, 6)) = Done(<<64, 136, 247>>)

\* C15: for all register pairs (op1, op2) of equal width in every family the
\* RR form emits 0x66 iff the width is 16, then REX = 0100WRXB iff needed
\* with W = (width is 64), R = bit 3 of op2.idx, X = 0, B = bit 3 of op1.idx,
\* then the opcode bytes, then ModR/M with mod = 11, reg = op2.idx & 7,
\* rm = op1.idx & 7 (mov rcx,rdx = 48 89 D1; mov ch,dh = 88 F5;
\* mov dil,sil = 40 88 F7).
C15_RRBytes ==
    (trace # <<>> /\ IsRR(TheCall)) =>
        LET f == RRForm(TheCall)
        IN /\ MovRRVectors
           /\ panic = "none"
           /\ f.op1.bits = f.op2.bits
           /\ Code = RRPrefix(f.op1.bits, f.op2, f.op1) \o f.opc
                     \o <<192 + 8 * (f.op2.idx % 8) + (f.op1.idx % 8)>>

\* C15 witness: mov r11w, dx = 66 41 89 D3.
C15_Witness ==
    /\ Encoded
    /\ TheCall = [op |-> "mov", op1 |-> Reg(16, 11), op2 |-> Reg(16, 2)]
    /\ Code = <<102, 65, 137, 211>>

IsOI(c) == c.op = "mov" /\ c.op1.kind = "reg" /\ c.op2.kind = "imm"

\* C16: for every register r and immediate of the same width the OI form
\* emits 0x66 iff 16-bit, REX iff needed (W = 64-bit, B = bit 3 of r.idx),
\* then the single byte opcode + (r.idx & 7), then the immediate's bytes,
\* as many as the immediate is wide (mov rdi, imm64(0xaabb) =
\* 48 BF BB AA 00 00 00 00 00 00).
C16_OIBytes ==
    /\ mov(<<>>, Reg(64, 7), imm_from(8, [bytes |-> 4, signed |-> TRUE], 43707))
        = Done(<<72, 191, 187, 170, 0, 0, 0, 0, 0, 0>>)
    /\ (trace # <<>> /\ IsOI(TheCall)) =>
        LET r == TheCall.op1
            imm == TheCall.op2
            pre == (IF r.bits = 16 THEN <<102>> ELSE <<>>)
                   \o (IF r.bits = 64 \/ r.idx >= 8 \/ IsNewLowByte(r)
                       THEN <<64 + 8 * Bit(r.bits = 64) + Bit(r.idx >= 8)>>
                       ELSE <<>>)
        IN /\ panic = "none"
           /\ Len(imm.bytes) = r.bits \div 8
           /\ Len(Code) = Len(pre) + 1 + r.bits \div 8
           /\ SubSeq(Code, 1, Len(pre)) = pre
           /\ Code[Len(pre) + 1] = (IF r.bits = 8 THEN 176 ELSE 184) + (r.idx % 8)
           /\ SubSeq(Code, Len(pre) + 2, Len(Code)) = imm.bytes

\* C16 witness: mov r12w, imm16(0xaabb) = 66 41 BC BB AA.
C16_Witness ==
    /\ Encoded
    /\ TheCall = [op |-> "mov", op1 |-> Reg(16, 12),
                  op2 |-> imm_from(2, [bytes |-> 2, signed |-> FALSE], 43707)]
    /\ Code = <<102, 65, 188, 187, 170>>


IsMR(c) == c.op = "mov" /\ c.op1.kind = "mem" /\ c.op2.kind = "reg"
IsRM(c) == c.op = "mov" /\ c.op1.kind = "reg" /\ c.op2.kind = "mem"

\* [0x66 iff 16-bit] [REX iff needed, R = bit 3 of r.idx, B = bit 3 of
\* base.idx] opcode ModR/M(mod = 00, reg = r.idx & 7, rm = base.idx & 7)
IndirectBytes(opc, r, m) ==
    (IF m.bits = 16 THEN <<102>> ELSE <<>>)
    \o (IF m.bits = 64 \/ r.idx >= 8 \/ m.base.idx >= 8 \/ IsNewLowByte(r)
        THEN <<64 + 8 * Bit(m.bits = 64) + 4 * Bit(r.idx >= 8) + Bit(m.base.idx >= 8)>>
        ELSE <<>>)
    \o <<opc, 8 * (r.idx % 8) + (m.base.idx % 8)>>

\* two byte sequences that differ in the opcode byte (the one before the
\* ModR/M byte, which is the last byte here) and nowhere else
SameButOpcode(x, y) ==
    /\ Len(x) = Len(y) /\ Len(x) >= 2
    /\ \A i \in 1..Len(x) : i # Len(x) - 1 => x[i] = y[i]
    /\ x[Len(x) - 1] # y[Len(y) - 1]

\* C17 as claimed: for every register r and Indirect operand [base] of the
\* same size that is encoded, the MR form emits [0x66 iff 16-bit] [REX iff
\* needed with R = bit 3 of r.idx, B = bit 3 of base.idx] opcode
\* ModR/M(mod = 00, reg = r.idx & 7, rm = base.idx & 7), and the RM form of
\* the same pair emits the same bytes except for the opcode byte.
C17_IndirectBytes ==
    /\ mov(<<>>, Reg(64, 1), indirect(64, Reg(64, 2))) = Done(<<72, 139, 10>>)
    /\ mov(<<>>, indirect(64, Reg(64, 2)), Reg(64, 1)) = Done(<<72, 137, 10>>)
    /\ mov(<<>>, indirect(64, Reg(64, 14)), Reg(64, 15)) = Done(<<77, 137, 62>>)
    /\ (Encoded /\ IsMR(TheCall) /\ TheCall.op1.mode = "Indirect") =>
        LET m == TheCall.op1
            r == TheCall.op2
        IN /\ Code = IndirectBytes(IF m.bits = 8 THEN 136 ELSE 137, r, m)
           /\ SameButOpcode(Code, mov(<<>>, r, m).buf)
    /\ (Encoded /\ IsRM(TheCall) /\ TheCall.op2.mode = "Indirect") =>
        LET m == TheCall.op2
            r == TheCall.op1
        IN /\ Code = IndirectBytes(IF m.bits = 8 THEN 138 ELSE 139, r, m)
           /\ SameButOpcode(Code, mov(<<>>, m, r).buf)

\* C17 failing input: mov [rdx], sil is encoded as 88 32, without REX.
C17_Failing ==
    /\ Encoded
    /\ TheCall = [op |-> "mov", op1 |-> indirect(8, Reg(64, 2)), op2 |-> Reg(8, 6)]
    /\ Code = <<136, 50>>


IsSubM8(c) ==
    /\ c.op = "sub" /\ c.op1.kind = "mem" /\ c.op1.bits = 8
    /\ c.op2.kind = "imm" /\ c.op2.size = 1

\* number of REX bytes in front of the opcode of an instruction without a
\* legacy prefix
RexLen == IF Code[1] \in 64..79 THEN 1 ELSE 0

\* C18 as claimed: sub with an 8-bit memory operand and an 8-bit immediate is
\* encoded in MI form with primary opcode 0x80 and ModR/M.reg = 5, followed
\* (after the addressing bytes) by the one immediate byte.
C18_SubM8Imm8 ==
    (Encoded /\ IsSubM8(TheCall)) =>
        /\ Code[RexLen + 1] = 128
        /\ (Code[RexLen + 2] \div 8) % 8 = 5
        /\ Code[Len(Code)] = TheCall.op2.bytes[1]
        /\ Len(Code) = RexLen + 3
            + (IF TheCall.op1.mode = "Indirect" THEN 0
               ELSE IF TheCall.op1.mode = "IndirectDisp" THEN 4 ELSE 1)

\* C18 failing input: sub byte [rbx + r13], 2 is encoded as 42 83 2C 2B 02.
C18_Failing ==
    /\ Encoded
    /\ TheCall = [op |-> "sub",
                  op1 |-> indirect_base_index(8, Reg(64, 3), Reg(64, 13)),
                  op2 |-> imm_from(1, [bytes |-> 1, signed |-> FALSE], 2)]
    /\ Code = <<66, 131, 44, 43, 2>>


\* the last byte of b read as a signed byte
TopSigned(b) == b[Len(b)] - (IF b[Len(b)] >= 128 THEN 256 ELSE 0)

\* the low bytes b[1..n-1] read as a little-endian unsigned integer (n <= 4)
RECURSIVE LowLE(_, _)
LowLE(b, n) == IF n <= 1 THEN 0 ELSE LowLE(b, n - 1) + b[n - 1] * Pow256(n - 2)

\* an N-byte pattern read back as a little-endian integer: {value}, or {} if
\* the value lies outside the i32 range this model computes in
ReadBack(b, signed) ==
    LET n == Len(b)
        lo == IF n = 8 THEN SubSeq(b, 1, 4) ELSE b
        fill == IF signed /\ b[n] >= 128 THEN 255 ELSE 0
        upper_ok == n # 8 \/ (\A i \in 5..8 : b[i] = fill)
        v == LowLE(lo, Len(lo)) + Pow256(Len(lo) - 1) *
                (IF signed /\ (n # 8 \/ fill = 255) THEN TopSigned(lo) ELSE lo[Len(lo)])
    IN IF ~upper_ok THEN {}
       ELSE IF Len(lo) = 4 /\ lo[4] >= 128 /\ ~(signed /\ (n # 8 \/ fill = 255)) THEN {}
       ELSE IF n = 8 /\ signed /\ fill = 255 /\ lo[4] < 128 THEN {}
       ELSE {v}

\* C19 as claimed: an N-byte immediate built from an integer x of width <= N
\* holds the canonical N-byte little-endian pattern of x, zero-extended for
\* an unsigned and sign-extended for a signed source type, so that reading
\* the N bytes back with the source's signedness gives x.
C19_ImmCanonical ==
    trace # <<>> =>
        LET c == trace[1].call
            imm == trace[1].imm
        IN /\ Len(imm.bytes) = c.size
           /\ \A i \in 1..c.size :
                imm.bytes[i] = (IF i <= 4 THEN (c.x \div Pow256(i - 1)) % 256
                                ELSE IF c.x < 0 THEN 255 ELSE 0)
           /\ ReadBack(imm.bytes, c.type.signed) = {c.x}

\* C19 failing input: Imm32::from(-1i8) holds FF 00 00 00.
C19_Failing ==
    /\ trace # <<>>
    /\ trace[1].call = [op |-> "from", size |-> 4,
                        type |-> [bytes |-> 1, signed |-> TRUE], x |-> -1]
    /\ trace[1].imm.bytes = <<255, 0, 0, 0>>

\* the part of C19 the code does satisfy: the source's own bytes come first,
\* least significant first, and the rest is zero; reading back gives x for
\* every unsigned source, for every source as wide as the immediate, and for
\* every non-negative x.
C19_ZeroExtended ==
    trace # <<>> =>
        LET c == trace[1].call
            imm == trace[1].imm
        IN /\ Len(imm.bytes) = c.size
           /\ \A i \in 1..c.size :
                imm.bytes[i] = (IF i > c.type.bytes THEN 0
                                ELSE IF i <= 4 THEN (c.x \div Pow256(i - 1)) % 256
                                ELSE IF c.x < 0 THEN 255 ELSE 0)
           /\ (~c.type.signed \/ c.type.bytes = c.size \/ c.x >= 0)
                => ReadBack(imm.bytes, c.type.signed) = {c.x}


\* every way a jmp to l on encoder a can end, over every drain order
JmpOutcomes(a, l) ==
    LET b1 == emit(buf[a], <<OpcJmp>>)
    IN resolve(emit(b1, <<0, 0, 0, 0>>), npatched[a], location[l],
               record_offset(offsets[l], Len(b1)))

\* every way a bind of l on encoder a can end, over every drain order
BindOutcomes(a, l) ==
    LET newloc == label_bind(location[l], Len(buf[a]))
    IN IF newloc = None THEN {[panic |-> "assertion failed: !self.is_bound()"]}
       ELSE resolve(buf[a], npatched[a], newloc, offsets[l])

\* C20: emission is deterministic: in every state every call has exactly one
\* outcome (buffer, fix-up set, panic), so the buffer is a function of the
\* sequence of calls; in particular it does not depend on the order in which
\* resolve drains a label's fix-ups from the HashSet.
C20_Deterministic ==
    \A a \in asms, l \in Labels :
        /\ Cardinality(JmpOutcomes(a, l)) = 1
        /\ Cardinality(BindOutcomes(a, l)) = 1

\* C20 witness: bind(L) has drained two fix-ups of L in one call; both
\* displacements are in place: E9 06 00 00 00 E9 01 00 00 00 90.
C20_Witness ==
    /\ panic = "none" /\ Len(trace) = 4
    /\ IsJmpTo(1, 1) /\ IsJmpTo(2, 1) /\ trace[3].op = "nop" /\ IsBindOf(4, 1)
    /\ DOMAIN npatched[1] = {1, 6}
    /\ buf[1] = <<233, 6, 0, 0, 0, 233, 1, 0, 0, 0, 144>>


\* ---- Asm::resolve on buffers beyond the i32 range -----------------------

\* a usize of the 64-bit host: hi * 2^31 + lo with lo in 0..I32Max
USize(hi, lo) == [hi |-> hi, lo |-> lo]

\* i32::try_from(usize): Some(v) iff the value is at most i32::MAX
i32_try_from(u) == IF u.hi = 0 THEN Some(u.lo) ELSE None

\* buffer positions a label location or a fix-up offset can take
UsizeSamples ==
    {USize(0, v) : v \in {0, 1, 5, 6, 1000, I32Max - 4, I32Max - 3,
                          I32Max - 2, I32Max - 1, I32Max}}
        \cup {USize(1, 0), USize(1, 7)}

\* u < v on usize
usize_lt(u, v) == u.hi < v.hi \/ (u.hi = v.hi /\ u.lo < v.lo)

\* u >= v + 4 on usize
usize_ge4(u, v) ==
    IF u.hi = v.hi THEN u.lo - v.lo >= 4
    ELSE u.hi > v.hi /\ v.lo - u.lo <= I32Max - 3

\* The body of Asm::resolve for one drained fix-up `off` of a label bound at
\* `loc`.  `loc - off - 4` is evaluated left to right on i32; when it leaves
\* the i32 range the build decides: with overflow checks (debug profile) the
\* subtraction panics, without them (release profile) it wraps.  The outcome
\* is the panic message and the bytes handed to emit_at (<<>> if none).
resolve_patch(loc, off, overflow_checks) ==
    IF i32_try_from(loc) = None
    THEN [panic |-> "Label location did not fit into i32.", bytes |-> <<>>]
    ELSE IF i32_try_from(off) = None
    THEN [panic |-> "Label offset did not fit into i32", bytes |-> <<>>]
    ELSE LET l == Unwrap(i32_try_from(loc))
             o == Unwrap(i32_try_from(off))
         IN IF overflow_checks /\ l - o < -2147483644
            THEN [panic |-> "attempt to subtract with overflow", bytes |-> <<>>]
            ELSE [panic |-> "none", bytes |-> to_ne_bytes(disp32(l, o), 4)]

\* A label location and one of its fix-ups as a single encoder produces
\* them: the placeholder lies after a jump opcode, and the label is bound
\* either behind the placeholder (forward jump) or before the opcode.
ResolveCalls ==
    {[op |-> "resolve", loc |-> loc, off |-> off, overflow_checks |-> c] :
        <<loc, off, c>> \in
            {lo \in UsizeSamples \X UsizeSamples \X BOOLEAN :
                /\ usize_lt(USize(0, 0), lo[2])
                /\ \/ usize_lt(lo[1], lo[2])
                   \/ usize_ge4(lo[1], lo[2])}}

\* resolve reaches the fix-up: the call and its outcome go to the history
ResolvePatch ==
    /\ panic = "none" /\ insn.op = "resolve"
    /\ LET r == resolve_patch(insn.loc, insn.off, insn.overflow_checks)
       IN /\ panic' = r.panic
          /\ trace' = Append(trace, [call |-> insn, bytes |-> r.bytes])
    /\ insn' = NoInsn
    /\ UNCHANGED <<asms, buf, location, offsets, lstate, npatched>>
    /\ UNCHANGED <<rtvars, appvars>>

InitResolve ==
    asms = {1} /\ InitAsmState /\ NoRuntime /\ NoApps /\ insn \in ResolveCalls

NextResolve == ResolvePatch

SpecResolve == InitResolve /\ [][NextResolve]_vars

\* the displacement loc - off - 4 lies in the i32 range
DispFits(c) ==
    /\ c.loc.hi = 0 /\ c.off.hi = 0
    /\ c.loc.lo - c.off.lo >= -2147483644

\* C21 as claimed: resolution fails fast whenever the label location, the
\* patch offset or the displacement loc - off - 4 does not fit in an i32,
\* and the four bytes it writes are always those of the true displacement,
\* never of a wrapped one.
C21_FailFast ==
    trace # <<>> =>
        LET c == trace[1].call
        IN /\ ~DispFits(c) => panic # "none"
           /\ trace[1].bytes # <<>> =>
                /\ DispFits(c)
                /\ trace[1].bytes = to_ne_bytes(c.loc.lo - c.off.lo - 4, 4)

\* C21 failing input: the label is bound at 0 and jumped to from offset
\* 2^31 - 3 in a build without overflow checks; -2^31 - 1 wraps to i32::MAX
\* and FF FF FF 7F is written.
C21_Failing ==
    /\ trace # <<>>
    /\ trace[1].call = [op |-> "resolve", loc |-> USize(0, 0),
                        off |-> USize(0, I32Max - 2), overflow_checks |-> FALSE]
    /\ panic = "none"
    /\ trace[1].bytes = <<255, 255, 255, 127>>

\* the part of C21 the code does satisfy: a location or an offset beyond
\* i32::MAX always panics, and so does an overflowing displacement in a
\* build with overflow checks.
C21_CheckedFailFast ==
    trace # <<>> =>
        LET c == trace[1].call
        IN /\ (c.loc.hi # 0 \/ c.off.hi # 0) => panic # "none"
           /\ (c.overflow_checks /\ ~DispFits(c)) => panic # "none"
           /\ DispFits(c) =>
                /\ panic = "none"
                /\ trace[1].bytes = to_ne_bytes(c.loc.lo - c.off.lo - 4, 4)

\* ---- memory forms -------------------------------------------------------

\* the memory operand of a call that has one
MemOf(c) == CHOOSE o \in MemOperands(c) : TRUE

\* the immediate bytes of an MI call, <<>> in the other forms
ImmBytesOf(c) == IF c.op2.kind = "imm" THEN c.op2.bytes ELSE <<>>

\* position of the one-byte opcode: after the legacy prefix and the REX byte
OpcodePos(c) == PrefixLen(c) + Bit(HasRex(c)) + 1

\* the bytes that follow the opcode
AfterOpcode(c) == SubSeq(Code, OpcodePos(c) + 1, Len(Code))

\* REX.X of the encoded instruction, 0 without a REX prefix
RexX(c) == IF HasRex(c) THEN (Code[PrefixLen(c) + 1] \div 2) % 2 ELSE 0

\* C23: in the M, MI, MR and RM forms the bytes after the opcode are, for an
\* Indirect operand, ModR/M(mod=00, rm=base&7) alone; for Indirect+Disp32,
\* ModR/M(mod=10, rm=base&7) and the four little-endian bytes of the
\* displacement, whatever its value and also for the bases rbp and r13; for
\* Base+Index, ModR/M(mod=00, rm=100) and one SIB byte with scale 0,
\* index&7 and base&7, with REX.X = bit 3 of the index; the immediate of the
\* MI form comes last.
C23_MemBytes ==
    (Encoded /\ MemOperands(TheCall) # {}) =>
        LET c == TheCall
            m == MemOf(c)
            tail == AfterOpcode(c)
            imm == ImmBytesOf(c)
        IN /\ Len(tail) >= 1
           /\ tail[1] % 8 = (IF m.mode = "IndirectBaseIndex" THEN 4 ELSE m.base.idx % 8)
           /\ tail[1] \div 64 = (IF m.mode = "IndirectDisp" THEN 2 ELSE 0)
           /\ m.mode = "Indirect" => tail = <<tail[1]>> \o imm
           /\ m.mode = "IndirectDisp" =>
                /\ Len(tail) = 5 + Len(imm)
                /\ SignedLE32(tail, 1) = m.disp
                /\ SubSeq(tail, 6, Len(tail)) = imm
           /\ m.mode = "IndirectBaseIndex" =>
                /\ Len(tail) = 2 + Len(imm)
                /\ tail[2] \div 64 = 0
                /\ (tail[2] \div 8) % 8 = m.index.idx % 8
                /\ tail[2] % 8 = m.base.idx % 8
                /\ RexX(c) = m.index.idx \div 8
                /\ SubSeq(tail, 3, Len(tail)) = imm
           /\ m.mode # "IndirectBaseIndex" => RexX(c) = 0

\* C23 witness: mov [r13 + 0], ax was encoded with mod = 10 and four zero
\* displacement bytes.
C23_Witness ==
    /\ Encoded
    /\ TheCall.op = "mov"
    /\ TheCall.op1 = indirect_disp(16, Reg(64, 13), 0)
    /\ TheCall.op2 = Reg(16, 0)
    /\ Code = <<102, 65, 137, 133, 0, 0, 0, 0>>

\* ---- the buffer is append-only ------------------------------------------

\* the call issued by the step
StepCall == trace'[Len(trace')]

\* the fix-up offsets the step's resolve drains in encoder a: those of the
\* label of a bind or a jmp, and the placeholder the jmp itself records
StepFixups(a) ==
    LET c == StepCall IN
    IF c.op \in {"jmp", "bind"} /\ c.asm = a /\ panic' = "none"
          /\ location'[c.label] # None
    THEN offsets[c.label] \cup (IF c.op = "jmp" THEN {Len(buf[a]) + 1} ELSE {})
    ELSE {}

\* how often emit_at has written at offset off of encoder a
PatchCount(np, a, off) == IF off \in DOMAIN np[a] THEN np[a][off] ELSE 0

\* C24: every instruction and label operation leaves the buffer length
\* non-decreasing and every byte emitted before unchanged, except that label
\* resolution overwrites exactly the four bytes at each recorded fix-up
\* offset; bind appends no byte and resolution does not change the length
\* (a label jump grows the buffer by its opcode and placeholder only).
C24_AppendOnly ==
    [][trace' # trace =>
        \A a \in asms :
            LET old == buf[a]
                new == buf'[a]
                c == StepCall
                fix == StepFixups(a)
            IN /\ Len(new) >= Len(old)
               /\ \A i \in 1..Len(old) :
                    new[i] # old[i] => \E off \in fix : i \in (off + 1)..(off + 4)
               /\ \A off \in 0..Len(new) :
                    PatchCount(npatched', a, off) =
                        PatchCount(npatched, a, off) + Bit(off \in fix)
               /\ \A off \in fix :
                    /\ off + 4 <= Len(new)
                    /\ SignedLE32(new, off) = Unwrap(location'[c.label]) - off - 4
               /\ c.op = "bind" => Len(new) = Len(old)
               /\ (c.op = "jmp" /\ c.asm = a) => Len(new) = Len(old) + 5
               /\ (c.op \in {"nop", "nops"} /\ c.asm = a) =>
                    Len(new) = Len(old) + CallSize(c)
               /\ c.op = "drop" => new = old
    ]_vars

\* C24 witness: a bind has just patched the placeholder at offset 1 of a
\* forward jump that is followed by further code.
C24_Witness ==
    /\ panic = "none" /\ Len(trace) >= 3
    /\ trace[1].op = "jmp" /\ trace[2].op = "nop"
    /\ LastCall = Call("bind", 1, trace[1].label)
    /\ PatchCount(npatched, 1, 1) = 1
    /\ SubSeq(buf[1], 1, 6) = <<OpcJmp, Len(buf[1]) - 5, 0, 0, 0, OpcNop>>

\* ---- conditional moves --------------------------------------------------

IsCmov(c) == c.op \in {"cmovz", "cmovnz"}

\* C25: cmovz(dst, src) and cmovnz(dst, src) on 64-bit registers emit REX.W
\* with R = bit 3 of dst.idx and B = bit 3 of src.idx, the opcode 0F 44
\* (cmovz) or 0F 45 (cmovnz), and ModR/M(mod=11, reg=dst&7, rm=src&7): the
\* destination is in ModR/M.reg, where mov dst, src has its source.
C25_CmovBytes ==
    /\ (trace # <<>> /\ IsCmov(TheCall)) =>
        LET dst == TheCall.op1
            src == TheCall.op2
        IN /\ panic = "none"
           /\ dst.bits = 64 /\ src.bits = 64
           /\ Code = <<72 + 4 * (dst.idx \div 8) + (src.idx \div 8),
                       15, IF TheCall.op = "cmovz" THEN 68 ELSE 69,
                       192 + 8 * (dst.idx % 8) + (src.idx % 8)>>
    /\ (trace # <<>> /\ TheCall.op = "mov" /\ IsRR(TheCall)
            /\ TheCall.op1.bits = 64) =>
        Code = <<72 + 4 * (TheCall.op2.idx \div 8) + (TheCall.op1.idx \div 8),
                 137, 192 + 8 * (TheCall.op2.idx % 8) + (TheCall.op1.idx % 8)>>

\* C25 witness: cmovnz rdx, r11 = 49 0F 45 D3.
C25_Witness ==
    /\ Encoded
    /\ TheCall = [op |-> "cmovnz", op1 |-> Reg(64, 2), op2 |-> Reg(64, 11)]
    /\ Code = <<73, 15, 69, 211>>

\* ---- a rejected add_code ------------------------------------------------

\* C27: an add_code call that aborts on a capacity violation (empty input,
\* input longer than len - idx, page already full) leaves idx, the page
\* protection and the page contents as they were before the call; the
\* capacity checks come before the unprotect step, so a capacity panic is
\* only ever raised at the head of a call.
C27_RejectedCallNoEffect ==
    /\ [](panic \in CapacityPanics => pc = "check")
    /\ [][(panic = "none" /\ panic' \in CapacityPanics) =>
            /\ pc = "idle"
            /\ add_code_check(rt.idx, rt.len, Len(arg')) = panic'
            /\ rt' = rt /\ prot' = prot /\ page' = page
            /\ mapped' = mapped /\ fns' = fns]_vars

\* C27 witness: a call was rejected because its input did not fit behind an
\* earlier block; the block is in place and the page is read+execute.
C27_Witness ==
    /\ panic = "Code does not fit on the runtime code page"
    /\ pc = "check" /\ mapped
    /\ rt.idx > 0 /\ Len(arg) = rt.len - rt.idx + 1
    /\ prot = PROT_READ_EXEC
    /\ Len(fns) = 1 /\ BlockIntact(1)

\* ---- a label shared between encoders ------------------------------------

\* the client works with two encoders and hands any label to either
InitMulti ==
    asms = {1, 2} /\ InitAsmState /\ insn = NoInsn /\ NoRuntime /\ NoApps

NextMulti ==
    \/ \E a \in Asms : Nop(a)
    \/ \E a \in Asms, l \in Labels : Jmp(a, l)
    \/ \E a \in Asms, l \in Labels : Bind(a, l)
    \/ \E l \in Labels : DropLabel(l)

SpecMulti == InitMulti /\ [][NextMulti]_vars

\* the placeholder offsets of the jumps encoder a has emitted
PlaceholdersOf(a) ==
    {PatchOffset(i) : i \in {j \in DOMAIN trace : trace[j].op = "jmp" /\ trace[j].asm = a}}

\* C28 as claimed: for any sequence of jumps and binds on a label, also when
\* the label is handed to more than one encoder, every recorded fix-up is
\* patched in the buffer its placeholder was emitted to, nothing else is
\* patched, and emit_at never reaches its out-of-bounds branch.
C28_PatchedInOwnBuffer ==
    /\ panic # "not implemented"
    /\ \A i \in DOMAIN trace :
        (trace[i].op = "jmp" /\ panic = "none"
            /\ location[trace[i].label] # None /\ offsets[trace[i].label] = {})
        => PatchCount(npatched, trace[i].asm, PatchOffset(i)) = 1
    /\ \A a \in asms : DOMAIN npatched[a] \subseteq PlaceholdersOf(a)

\* C28 failing input: asm1.jmp(l) records offset 1, asm2.bind(l) resolves it
\* against the empty buffer of asm2 and emit_at takes its out-of-bounds
\* branch.
C28_Failing ==
    /\ trace = <<Call("jmp", 1, 1), Call("bind", 2, 1)>>
    /\ panic = "not implemented"
    /\ buf[1] = <<OpcJmp, 0, 0, 0, 0>> /\ buf[2] = <<>>

\* the silent variant: asm2 holds a jump of its own, so the fix-up recorded
\* by asm1.jmp(l) is patched into asm2's bytes and asm1's placeholder stays
\* zero although the label is bound and its fix-up set is empty.
C28_WrongBuffer ==
    /\ trace = <<Call("jmp", 2, 2), Call("jmp", 1, 1), Call("bind", 2, 1)>>
    /\ panic = "none"
    /\ location[1] = Some(5) /\ offsets[1] = {}
    /\ buf[1] = <<OpcJmp, 0, 0, 0, 0>>
    /\ buf[2] = <<OpcJmp, 0, 0, 0, 0>>
    /\ PatchCount(npatched, 2, 1) = 1

\* the part of C28 the code does satisfy: as long as every label has been
\* used with one encoder only, patches go to placeholders of that encoder
\* and stay inside its buffer.
C28_SingleEncoderLabels ==
    (\A l \in Labels : OneEncoder(l)) =>
        /\ panic # "not implemented"
        /\ \A a \in asms : DOMAIN npatched[a] \subseteq PlaceholdersOf(a)

\* ---- pending placeholders -----------------------------------------------

\* the pending fix-ups of all labels, as (label, offset) pairs
Pending == {lo \in Labels \X (0..Len(buf[1])) : lo[2] \in offsets[lo[1]]}

\* C29: while a label used with a single encoder is unbound, every offset in
\* its fix-up set is the start of a four-byte all-zero placeholder that lies
\* inside the buffer and directly follows a jump opcode; the placeholders of
\* distinct fix-ups, of the same or of different labels, do not overlap; and
\* a label jump takes opcode length + 4 bytes whether or not its label is
\* bound.
C29_Placeholders ==
    /\ \A l \in Labels :
        location[l] = None =>
            \A off \in offsets[l] :
                /\ off >= 1 /\ off + 4 <= Len(buf[1])
                /\ buf[1][off] = OpcJmp
                /\ SubSeq(buf[1], off + 1, off + 4) = <<0, 0, 0, 0>>
    /\ \A l \in Labels : \A off \in offsets[l] : off \in 0..Len(buf[1])
    /\ \A p, q \in Pending :
        p # q => (p[2] + 4 <= q[2] \/ q[2] + 4 <= p[2])
    /\ \A i \in DOMAIN trace :
        trace[i].op = "jmp" =>
            LenBefore(1, i + 1) - LenBefore(1, i) = 1 + 4
    /\ Len(buf[1]) = LenBefore(1, Len(trace) + 1)

\* C29 witness: two jumps to one unbound label and a jump to another are
\* pending, and a fourth jump went to a label bound before it.
C29_Witness ==
    /\ panic = "none"
    /\ \E l, m \in Labels :
        /\ l # m
        /\ location[l] = None /\ offsets[l] = {1, 6}
        /\ location[m] = Some(10) /\ offsets[m] = {}
        /\ trace = <<Call("jmp", 1, l), Call("jmp", 1, l),
                     Call("bind", 1, m), Call("jmp", 1, m)>>
        /\ Len(buf[1]) = 15

\* C29 witness for fix-ups of different labels: both labels are unbound and
\* each has a pending placeholder.
C29_TwoLabelsPending ==
    /\ panic = "none"
    /\ location[1] = None /\ location[2] = None
    /\ offsets[1] # {} /\ offsets[2] # {}

\* ---- several labels on one encoder --------------------------------------

\* C30: with several labels in use on one encoder, a bind of or a jump to
\* one label changes neither the location nor the fix-up set of any other
\* label and writes no byte inside another label's pending placeholders; the
\* displacement a jump ends up with is its own label's bind position minus
\* the end of its placeholder, whatever happens to the other labels.
C30_LabelsIndependent ==
    /\ [](\A i \in DOMAIN trace :
            (trace[i].op = "jmp" /\ location[trace[i].label] # None
                /\ panic = "none") =>
            SignedLE32(buf[1], PatchOffset(i))
                = Unwrap(location[trace[i].label]) - (PatchOffset(i) + 4))
    /\ [][trace' # trace =>
            \A m \in Labels :
                m # StepCall.label =>
                    /\ location'[m] = location[m]
                    /\ offsets'[m] = offsets[m]
                    /\ \A off \in offsets[m] :
                        SubSeq(buf'[1], off + 1, off + 4)
                            = SubSeq(buf[1], off + 1, off + 4)]_vars

\* C30 witness: label 1 was bound while a jump to label 2 was pending right
\* behind it, then label 2 was bound elsewhere; each jump carries the
\* displacement to its own label.
C30_Witness ==
    /\ panic = "none"
    /\ trace = <<Call("jmp", 1, 1), Call("jmp", 1, 2),
                 Call("bind", 1, 1), Call("bind", 1, 2)>>
    /\ location[1] = Some(10) /\ location[2] = Some(10)
    /\ buf[1] = <<OpcJmp, 5, 0, 0, 0, OpcJmp, 0, 0, 0, 0>>

\* ---- the instructions the example programs emit ------------------------

\* impl Add<..> for Asm (insn/add.rs)
add(b, op1, op2) ==
    IF Kinds(op1, op2) = <<"reg", "reg">> THEN encode_rr(b, <<1>>, op1, op2)
    ELSE IF Kinds(op1, op2) = <<"mem", "reg">> THEN encode_mr(b, 1, op1, op2)
    ELSE IF Kinds(op1, op2) = <<"reg", "mem">> THEN encode_rm(b, 3, op1, op2)
    ELSE IF op1.bits = 8 THEN encode_mi(b, 128, 0, op1, op2)
    ELSE IF op2.size = 1 THEN encode_mi(b, 131, 0, op1, op2)
    ELSE encode_mi(b, 129, 0, op1, op2)

\* impl Cmp<Mem8, Imm8>, Cmp<Mem16, Imm16>, Cmp<Reg64, Reg64> (insn/cmp.rs)
cmp(b, op1, op2) ==
    IF Kinds(op1, op2) = <<"reg", "reg">> THEN encode_rr(b, <<59>>, op1, op2)
    ELSE IF op1.bits = 8 THEN encode_mi(b, 128, 7, op1, op2)
    ELSE encode_mi(b, 129, 7, op1, op2)

\* impl Inc<..> for Asm (insn/inc.rs)
inc(b, op1) ==
    IF op1.kind = "reg" THEN encode_r(b, 255, 0, op1)
    ELSE encode_m(b, IF op1.bits = 8 THEN 254 ELSE 255, 0, op1)

\* impl Test<Reg64, Reg64>, Test<Reg32, Reg32>, Test<Mem16, Imm16> (insn/test.rs)
test(b, op1, op2) ==
    IF Kinds(op1, op2) = <<"reg", "reg">> THEN encode_rr(b, <<133>>, op1, op2)
    ELSE encode_mi(b, 247, 0, op1, op2)

\* impl Xor<Reg64, Reg64> (insn/xor.rs)
xor(b, op1, op2) == encode_rr(b, <<49>>, op1, op2)

\* impl Push<Reg64>, Push<Reg16> (insn/push.rs)
push(b, op1) == encode_r(b, 255, 6, op1)

\* impl Pop<Reg64>, Pop<Reg16> (insn/pop.rs)
pop(b, op1) == encode_r(b, 143, 0, op1)

\* impl Call<Reg64> (insn/call.rs)
call(b, op1) == encode_r(b, 255, 2, op1)

\* Asm::ret (insn/ret.rs)
ret(b) == Done(emit(b, <<195>>))

\* one instruction call of a client, by name
encode(b, c) ==
    IF c.op = "mov" THEN mov(b, c.op1, c.op2)
    ELSE IF c.op = "add" THEN add(b, c.op1, c.op2)
    ELSE IF c.op = "sub" THEN sub(b, c.op1, c.op2)
    ELSE IF c.op = "cmp" THEN cmp(b, c.op1, c.op2)
    ELSE IF c.op = "test" THEN test(b, c.op1, c.op2)
    ELSE IF c.op = "xor" THEN xor(b, c.op1, c.op2)
    ELSE IF c.op = "cmovz" THEN cmovz(b, c.op1, c.op2)
    ELSE IF c.op = "inc" THEN inc(b, c.op1)
    ELSE IF c.op = "dec" THEN dec(b, c.op1)
    ELSE IF c.op = "push" THEN push(b, c.op1)
    ELSE IF c.op = "pop" THEN pop(b, c.op1)
    ELSE IF c.op = "call" THEN call(b, c.op1)
    ELSE ret(b)

I2(op, op1, op2) == [op |-> op, op1 |-> op1, op2 |-> op2]
I1(op, op1) == [op |-> op, op1 |-> op1, op2 |-> NoOperand]
I0(op) == [op |-> op, op1 |-> NoOperand, op2 |-> NoOperand]

\* a `let` of the source: the value is computed once, then used
Let(v, F(_)) == Unwrap({F(x) : x \in {v}})

\* a straight run of instruction calls on one encoder; a panic ends it
RECURSIVE encode_all(_, _)
encode_all(r, calls) ==
    IF r.panic # "none" \/ calls = <<>> THEN r
    ELSE Let(encode(r.buf, Head(calls)), LAMBDA x : encode_all(x, Tail(calls)))

\* Label::new()
NewLabel == [location |-> None, offsets |-> {}]

\* Asm::resolve on a long fix-up set.  The fix-ups one encoder records for a
\* label are disjoint 4-byte windows, so every drain order ends in the same
\* buffer: all windows are patched at once.
resolve_all(b0, loc, offs) ==
    Let(b0, LAMBDA b :
        IF loc = None THEN [buf |-> b, offsets |-> offs, panic |-> "none"]
        ELSE IF Unwrap(loc) > I32Max
        THEN [buf |-> b, offsets |-> offs,
              panic |-> "Label location did not fit into i32."]
        ELSE IF \E off \in offs : off > I32Max
        THEN [buf |-> b, offsets |-> drain(offs),
              panic |-> "Label offset did not fit into i32"]
        ELSE IF \E off \in offs : ~emit_at_ok(b, off, 4)
        THEN [buf |-> b, offsets |-> drain(offs), panic |-> "not implemented"]
        ELSE [buf |-> [i \in 1..Len(b) |->
                        LET hit == {off \in (i - 4)..(i - 1) : off \in offs}
                        IN IF hit = {} THEN b[i]
                           ELSE Let(CHOOSE o \in hit : TRUE, LAMBDA off :
                                to_ne_bytes(disp32(Unwrap(loc), off), 4)[i - off])],
              offsets |-> drain(offs), panic |-> "none"])

\* Asm::encode_jmp_label with the label passed by the caller: the buffer,
\* the label and the panic, if any
jmp_label(b, opc, lab) ==
    Let(emit(b, opc), LAMBDA b1 :
    Let(resolve_all(emit(b1, <<0, 0, 0, 0>>), lab.location,
                    record_offset(lab.offsets, Len(b1))), LAMBDA r :
        [buf |-> r.buf, panic |-> r.panic,
         label |-> [location |-> lab.location, offsets |-> r.offsets]]))

\* Asm::bind with the label passed by the caller
bind_label(b, lab) ==
    Let(label_bind(lab.location, Len(b)), LAMBDA newloc :
        IF newloc = None
        THEN [buf |-> b, panic |-> "assertion failed: !self.is_bound()",
              label |-> lab]
        ELSE Let(resolve_all(b, newloc, lab.offsets), LAMBDA r :
                [buf |-> r.buf, panic |-> r.panic,
                 label |-> [location |-> newloc, offsets |-> r.offsets]]))

\* opcodes of the label jumps: jmp rel32, jz rel32, jnz rel32
OpcJz == <<15, 132>>
OpcJnz == <<15, 133>>

\* ---- the host cpu running jitted code -----------------------------------
\* The jitted code is the bytes on the code page; the cpu decodes and runs
\* them one instruction per step with the x86-64 semantics of the opcodes the
\* encoder can emit.  Register values are kept as (small) integers, memory
\* as bytes.  cpu = [run, why, rip, regs, zf, stack, mem, objs, beyond,
\* stray, ea, hostfn]: rip is the offset into the page, regs maps the register
\* index 0..15 to its value, stack holds the quadwords pushed (the return
\* address first), mem the bytes written so far, objs the (address, length)
\* of the objects the code was handed, beyond the value of a byte the host
\* keeps next to them, stray whether an access has left the objects, ea the
\* address of the last memory operand accessed, hostfn the address of the
\* one host function the code may call.

\* the return address the caller's call pushed
ReturnAddr == -1

\* no memory operand has been accessed yet
NoAccess == -1

\* address a lies inside an object handed to the code
InObj(m, a) == \E o \in m.objs : a >= o[1] /\ a < o[1] + o[2]

\* a zero-initialised object byte, or whatever the host keeps next to it
rd(m, a) ==
    IF a \in DOMAIN m.mem THEN m.mem[a]
    ELSE IF InObj(m, a) THEN 0 ELSE m.beyond

rd_n(m, a, n) == [i \in 1..n |-> rd(m, a + i - 1)]

\* the access a .. a + n - 1 leaves the objects
Strays(m, a, n) == \E i \in 1..n : ~InObj(m, a + i - 1)

touch_n(m, a, n) == [m EXCEPT !.stray = @ \/ Strays(m, a, n), !.ea = a]

wr_n(m, a, bytes) ==
    [m EXCEPT
        !.mem = [x \in DOMAIN m.mem \cup {a + i - 1 : i \in 1..Len(bytes)} |->
                    IF x >= a /\ x < a + Len(bytes) THEN bytes[x - a + 1]
                    ELSE m.mem[x]],
        !.stray = @ \/ Strays(m, a, Len(bytes)),
        !.ea = a]

\* carry into byte i of x + y + c
RECURSIVE CarryIn(_, _, _, _)
CarryIn(x, y, c, i) ==
    IF i = 1 THEN c
    ELSE (x[i - 1] + y[i - 1] + CarryIn(x, y, c, i - 1)) \div 256

add_bytes(x, y, c) ==
    [i \in 1..Len(x) |-> (x[i] + y[i] + CarryIn(x, y, c, i)) % 256]

\* x - y as x + ~y + 1
sub_bytes(x, y) == add_bytes(x, [i \in 1..Len(y) |-> 255 - y[i]], 1)

\* sign extension of an immediate to n bytes
sext(bytes, n) ==
    [i \in 1..n |->
        IF i <= Len(bytes) THEN bytes[i]
        ELSE IF bytes[Len(bytes)] >= 128 THEN 255 ELSE 0]

IsZero(bytes) == \A i \in 1..Len(bytes) : bytes[i] = 0

\* the low n (1 or 2) bytes of a register value replaced
set_low(v, n, bytes) ==
    ((v - (v % Pow256(n))) + bytes[1]) + (IF n = 2 THEN 256 * bytes[2] ELSE 0)

\* the value of an imm64 whose upper half is the sign extension of its
\* lower half (the values the examples load); {} for any other pattern
imm64_value(code, po) ==
    LET hi == [i \in 1..4 |-> code[po + 4 + i]]
    IN IF (code[po + 4] < 128 /\ hi = <<0, 0, 0, 0>>)
          \/ (code[po + 4] >= 128 /\ hi = <<255, 255, 255, 255>>)
       THEN {SignedLE32(code, po)} ELSE {}

Fault(m, why) == {[m EXCEPT !.run = "fault", !.why = why]}

\* the host function returns: the caller-saved rax and rdi hold leftovers
host_call(m, next) ==
    {[m EXCEPT !.rip = next, !.regs = [@ EXCEPT ![0] = v, ![7] = v]] : v \in {0, 170}}

\* add, sub, cmp of a memory operand of n bytes with the bytes y
alu_mem(m, next, kind, a, y) ==
    LET old == rd_n(m, a, Len(y))
        res == IF kind = "add" THEN add_bytes(old, y, 0) ELSE sub_bytes(old, y)
        m1 == IF kind = "cmp" THEN touch_n(m, a, Len(y)) ELSE wr_n(m, a, res)
    IN {[m1 EXCEPT !.rip = next, !.zf = IsZero(res)]}

\* one instruction of the code at m.rip: the set of machine states after it
cpu_step(m, code) ==
    LET p0 == m.rip + 1
        pre66 == code[p0] = 102
        p1 == p0 + Bit(pre66)
        hasrex == code[p1] \in 64..79
        rexb == IF hasrex THEN code[p1] - 64 ELSE 0
        W == rexb \div 8
        R == (rexb \div 4) % 2
        X == (rexb \div 2) % 2
        B == rexb % 2
        p2 == p1 + Bit(hasrex)
        two == code[p2] = 15
        opc == IF two THEN 256 + code[p2 + 1] ELSE code[p2]
        p3 == p2 + 1 + Bit(two)
        mrm == code[p3]
        mod_ == mrm \div 64
        ext == (mrm \div 8) % 8
        reg == ext + (8 * R)
        rm == mrm % 8
        rmreg == rm + (8 * B)
        sb == code[p3 + 1]
        sbase == (sb % 8) + 8 * B
        sindex == ((sb \div 8) % 8) + 8 * X
        sscale == IF sb \div 64 = 0 THEN 1 ELSE IF sb \div 64 = 1 THEN 2
                  ELSE IF sb \div 64 = 2 THEN 4 ELSE 8
        form == IF mod_ = 3 THEN "reg"
                ELSE IF mod_ = 0 /\ rm = 4 /\ (sb % 8) # 5 THEN "sib"
                ELSE IF mod_ = 0 /\ rm \notin {4, 5} THEN "ind"
                ELSE IF mod_ = 2 /\ rm # 4 THEN "disp"
                ELSE "other"
        ea == IF form = "ind" THEN m.regs[rmreg]
              ELSE IF form = "disp" THEN m.regs[rmreg] + SignedLE32(code, p3)
              ELSE m.regs[sbase]
                   + (IF sindex = 4 THEN 0 ELSE m.regs[sindex] * sscale)
        mlen == IF form = "sib" THEN 2 ELSE IF form = "disp" THEN 5 ELSE 1
        p4 == p3 + mlen
        n == IF W = 1 THEN 8 ELSE IF pre66 THEN 2 ELSE 4
        ismem == form \in {"ind", "disp", "sib"}
        after(k) == p4 + k - 1
    IN
    IF opc = 144 THEN {[m EXCEPT !.rip = p2]}
    ELSE IF opc = 195
    THEN IF m.stack # <<>> /\ m.stack[Len(m.stack)] = ReturnAddr
         THEN {[m EXCEPT !.run = "returned",
                         !.stack = SubSeq(@, 1, Len(@) - 1)]}
         ELSE Fault(m, "ret to a wrong address")
    ELSE IF opc = 233
    THEN {[m EXCEPT !.rip = (p2 + 4) + SignedLE32(code, p2)]}
    ELSE IF opc \in {256 + 132, 256 + 133}
    THEN LET taken == IF opc = 256 + 132 THEN m.zf ELSE ~m.zf
             next == p3 + 3
         IN {[m EXCEPT !.rip = IF taken THEN next + SignedLE32(code, p3 - 1)
                                ELSE next]}
    ELSE IF opc \in 184..191
    THEN IF W = 1
         THEN LET v == imm64_value(code, p2)
              IN IF v = {} THEN Fault(m, "imm64 outside the modelled range")
                 ELSE {[m EXCEPT !.rip = p2 + 8,
                                 !.regs[(opc - 184) + 8 * B] = Unwrap(v)]}
         ELSE Fault(m, "unsupported operand size")
    ELSE IF form = "other" THEN Fault(m, "unsupported addressing form")
    ELSE IF opc = 255 /\ form = "reg"
    THEN IF ext = 6
         THEN {[m EXCEPT !.rip = after(0), !.stack = Append(@, m.regs[rmreg])]}
         ELSE IF ext = 2
         THEN IF m.regs[rmreg] = m.hostfn
              THEN host_call(m, after(0))
              ELSE Fault(m, "call to a wrong address")
         ELSE IF ext \in {0, 1} /\ W = 1
         THEN LET v == m.regs[rmreg] + (IF ext = 0 THEN 1 ELSE -1)
              IN {[m EXCEPT !.rip = after(0), !.regs[rmreg] = v, !.zf = (v = 0)]}
         ELSE Fault(m, "unsupported instruction")
    ELSE IF opc = 143 /\ form = "reg" /\ ext = 0
    THEN IF m.stack = <<>> THEN Fault(m, "pop from the caller's frame")
         ELSE {[m EXCEPT !.rip = after(0),
                         !.regs[rmreg] = m.stack[Len(m.stack)],
                         !.stack = SubSeq(@, 1, Len(@) - 1)]}
    ELSE IF form = "reg"
    THEN IF W # 1 THEN Fault(m, "unsupported operand size")
         ELSE IF opc = 137
         THEN {[m EXCEPT !.rip = after(0), !.regs[rmreg] = m.regs[reg]]}
         ELSE IF opc = 49 /\ rmreg = reg
         THEN {[m EXCEPT !.rip = after(0), !.regs[rmreg] = 0, !.zf = TRUE]}
         ELSE IF opc = 59
         THEN {[m EXCEPT !.rip = after(0), !.zf = (m.regs[reg] = m.regs[rmreg])]}
         ELSE IF opc = 133 /\ rmreg = reg
         THEN {[m EXCEPT !.rip = after(0), !.zf = (m.regs[reg] = 0)]}
         ELSE IF opc = 256 + 68
         THEN {[m EXCEPT !.rip = after(0),
                         !.regs[reg] = IF m.zf THEN m.regs[rmreg] ELSE @]}
         ELSE IF opc = 256 + 69
         THEN {[m EXCEPT !.rip = after(0),
                         !.regs[reg] = IF m.zf THEN @ ELSE m.regs[rmreg]]}
         ELSE Fault(m, "unsupported instruction")
    ELSE IF opc = 128 /\ ext \in {0, 5, 7}
    THEN alu_mem(m, after(1), IF ext = 0 THEN "add" ELSE IF ext = 5 THEN "sub" ELSE "cmp",
                 ea, <<code[p4]>>)
    ELSE IF opc = 131 /\ ext \in {0, 5, 7}
    THEN alu_mem(m, after(1), IF ext = 0 THEN "add" ELSE IF ext = 5 THEN "sub" ELSE "cmp",
                 ea, sext(<<code[p4]>>, n))
    ELSE IF opc = 129 /\ ext \in {0, 5, 7} /\ n = 2
    THEN alu_mem(m, after(2), IF ext = 0 THEN "add" ELSE IF ext = 5 THEN "sub" ELSE "cmp",
                 ea, <<code[p4], code[p4 + 1]>>)
    ELSE IF opc \in {254, 255} /\ ext \in {0, 1}
    THEN alu_mem(m, after(0), IF ext = 0 THEN "add" ELSE "sub", ea,
                 [i \in 1..(IF opc = 254 THEN 1 ELSE n) |-> IF i = 1 THEN 1 ELSE 0])
    ELSE IF opc = 199 /\ ext = 0 /\ n = 2
    THEN {[wr_n(m, ea, <<code[p4], code[p4 + 1]>>) EXCEPT !.rip = after(2)]}
    ELSE IF opc = 138 /\ (hasrex \/ ext < 4)
    THEN {[touch_n(m, ea, 1) EXCEPT
            !.rip = after(0), !.regs[reg] = set_low(@, 1, rd_n(m, ea, 1))]}
    ELSE IF opc = 139 /\ n = 2
    THEN {[touch_n(m, ea, 2) EXCEPT
            !.rip = after(0), !.regs[reg] = set_low(@, 2, rd_n(m, ea, 2))]}
    ELSE IF opc = 137 /\ n = 2
    THEN {[wr_n(m, ea, to_ne_bytes(m.regs[reg] % 65536, 2)) EXCEPT !.rip = after(0)]}
    ELSE IF opc = 1 /\ n = 2
    THEN alu_mem(m, after(0), "add", ea, to_ne_bytes(m.regs[reg] % 65536, 2))
    ELSE Fault(m, "unsupported instruction")

\* the cpu at the first instruction of the function at offset entry
cpu_enter(entry, arg0, arg1, mem, objs, beyond, hostfn) ==
    [run |-> "running", why |-> "", rip |-> entry,
     regs |-> [r \in 0..15 |->
                IF r = 7 THEN arg0 ELSE IF r = 6 THEN arg1 ELSE 1000 + r],
     zf |-> FALSE, stack |-> <<ReturnAddr>>, mem |-> mem, objs |-> objs,
     beyond |-> beyond, stray |-> FALSE, ea |-> NoAccess, hostfn |-> hostfn]

\* ---- examples/bf.rs: run_jit -------------------------------------------
\* bf = [phase, imem, pc, label_stack, oob_ov, oob_uv, epilogue, at, last,
\* idx_at, status]: the BrainfuckJit and the locals of run_jit.  pc counts
\* from 1.  Ghosts: at[pc] is the buffer offset where the code of the command
\* at pc begins, last is the command whose code the cpu entered last and
\* idx_at the data index it found.

DmemLen == 256          \* dmem: [u8; 256]
DmemAddr == 8192        \* &mut vm.dmem as *mut u8
PutcharAddr == 4660     \* putchar as usize

\* bounds of the programs tried
BfMaxLen == 3

dmem_base == Reg(64, 3)     \* Reg64::rbx
dmem_size == Reg(64, 12)    \* Reg64::r12
dmem_idx == Reg(64, 13)     \* Reg64::r13

Usize == [bytes |-> 8, signed |-> FALSE]
I32 == [bytes |-> 4, signed |-> TRUE]
U8 == [bytes |-> 1, signed |-> FALSE]

Cell == indirect_base_index(8, dmem_base, dmem_idx)

BfTokens == {">", "<", "+", "-", ".", ",", "[", "]"}

\* the brackets run_jit accepts: every ']' finds a '[' on the label stack and
\* the stack is empty after the loop
RECURSIVE BalancedFrom(_, _, _)
BalancedFrom(prog, k, depth) ==
    IF depth < 0 THEN FALSE
    ELSE IF k > Len(prog) THEN depth = 0
    ELSE BalancedFrom(prog, k + 1,
            depth + (IF prog[k] = "[" THEN 1 ELSE IF prog[k] = "]" THEN -1 ELSE 0))

Balanced(prog) == BalancedFrom(prog, 1, 0)

Repeat(c, n) == [i \in 1..n |-> c]

RECURSIVE SeqsUpTo(_, _)
SeqsUpTo(S, n) ==
    IF n = 0 THEN {<<>>}
    ELSE LET T == SeqsUpTo(S, n - 1)
         IN T \cup {Append(t, c) : t \in {x \in T : Len(x) = n - 1}, c \in S}

\* the programs of the tests (255 and 256 times '>', ">><<><", ">><<><<"),
\* runs of '>' ending in a folded "--" or "++" on the last cell, a run of
\* '+' too long to fold, and every program of up to maxlen commands
BfPrograms(maxlen) ==
    {Repeat(">", DmemLen - 1), Repeat(">", DmemLen),
     <<">", ">", "<", "<", ">", "<">>, <<">", ">", "<", "<", ">", "<", "<">>,
     Repeat(">", DmemLen - 1) \o <<"-", "-">>,
     Repeat(">", DmemLen - 1) \o <<"+", "+">>,
     Repeat("+", 256)}
    \cup SeqsUpTo(BfTokens, maxlen)

\* vm.imem[pc..].iter().take_while(|&&i| i.eq(&c)).count()
take_while_count(imem, from, c) ==
    CHOOSE k \in 1..(Len(imem) - from + 1) :
        /\ \A i \in 0..(k - 1) : imem[from + i] = c
        /\ (from + k > Len(imem) \/ imem[from + k] # c)

\* BrainfuckJit::new(prog): the filtered program, nothing emitted yet
InitBf ==
    /\ asms = {1} /\ InitAsmState /\ insn = NoInsn /\ NoRuntime
    /\ cpu = NoCpu /\ vm = NoVm
    /\ bf \in {[phase |-> "new", imem |-> q, pc |-> 1, label_stack |-> <<>>,
                oob_ov |-> NewLabel, oob_uv |-> NewLabel, epilogue |-> NewLabel,
                at |-> <<>>, last |-> 0, idx_at |-> 0, status |-> -1]
                    : q \in BfPrograms(BfMaxLen)}

\* the state of run_jit after some calls: the buffer, the panic, the locals
Jit(r, st) == [buf |-> r.buf, panic |-> r.panic, bf |-> st]

\* the next calls of run_jit, unless a panic has ended it
Then(j, F(_)) == Let(j, LAMBDA x : IF x.panic # "none" THEN x ELSE F(x))

\* run_jit up to the loop: the prologue
BfPrologue ==
    /\ panic = "none" /\ bf.phase = "new"
    /\ \E r \in {encode_all(Done(buf[1]),
                    <<I1("push", dmem_base), I1("push", dmem_size),
                      I1("push", dmem_idx),
                      I2("mov", dmem_base, Reg(64, 7)),
                      I2("mov", dmem_size, imm_from(8, Usize, DmemLen)),
                      I2("xor", dmem_idx, dmem_idx)>>)} :
          /\ buf' = [buf EXCEPT ![1] = r.buf]
          /\ panic' = r.panic
    /\ bf' = [bf EXCEPT !.phase = "gen"]
    /\ UNCHANGED <<asms, location, offsets, lstate, trace, npatched, insn>>
    /\ UNCHANGED <<rtvars, cpu, vm>>

\* a '<' arm that moves the index before it looks at it
bf_left_dec_first(b, st) ==
    Then(Jit(encode_all(Done(b), <<I1("dec", dmem_idx),
                                   I2("test", dmem_idx, dmem_idx)>>), st),
         LAMBDA r :
    Let(jmp_label(r.buf, OpcJz, st.oob_uv), LAMBDA j :
        Jit(j, [st EXCEPT !.oob_uv = j.label])))

\* the arm of '>': [buf, panic, bf] after it
bf_right(b, st) ==
    Then(Jit(encode_all(Done(b), <<I1("inc", dmem_idx),
                                   I2("cmp", dmem_idx, dmem_size)>>), st),
         LAMBDA r :
    Let(jmp_label(r.buf, OpcJz, st.oob_ov), LAMBDA j :
        Jit(j, [st EXCEPT !.oob_ov = j.label])))

\* the arm of '<'
bf_left(b, st) ==
    Then(Jit(encode_all(Done(b), <<I2("test", dmem_idx, dmem_idx)>>), st),
         LAMBDA r :
    Then(Let(jmp_label(r.buf, OpcJz, st.oob_uv), LAMBDA j :
            Jit(j, [st EXCEPT !.oob_uv = j.label])),
         LAMBDA j :
        Jit(encode_all(Done(j.buf), <<I1("dec", dmem_idx)>>), j.bf)))

\* the arms of '+' and '-': a run of up to 255 is folded into one add or sub
bf_fold(b, st, c) ==
    Let(take_while_count(st.imem, st.pc, c), LAMBDA cnt :
        IF cnt = 1
        THEN Jit(encode_all(Done(b),
                    <<I1(IF c = "+" THEN "inc" ELSE "dec", Cell)>>), st)
        ELSE IF cnt <= 255
        THEN Jit(encode_all(Done(b),
                    <<I2(IF c = "+" THEN "add" ELSE "sub", Cell,
                         imm_from(1, U8, cnt))>>),
                 [st EXCEPT !.pc = @ + cnt - 1])
        ELSE Jit(Abort(b, IF c = "+"
                          THEN "not implemented: oob, add with larger imm"
                          ELSE "not implemented: oob, sub with larger imm"), st))

\* the arm of '.'
bf_putchar(b, st) ==
    Jit(encode_all(Done(b),
            <<I2("mov", Reg(8, 7), Cell),
              I2("mov", Reg(64, 0), imm_from(8, Usize, PutcharAddr)),
              I1("call", Reg(64, 0))>>), st)

\* the arm of '['
bf_open(b, st) ==
    Then(Jit(encode_all(Done(b), <<I2("cmp", Cell, imm_from(1, U8, 0))>>), st),
         LAMBDA r :
    Let(jmp_label(r.buf, OpcJz, NewLabel), LAMBDA j :
        IF j.panic # "none" THEN Jit(j, st)
        ELSE Let(bind_label(j.buf, NewLabel), LAMBDA k :
                Jit(k, [st EXCEPT
                         !.label_stack = Append(@, <<j.label, k.label>>)]))))

\* the arm of ']'; the popped pair is dropped at its end
bf_close(b, st) ==
    IF st.label_stack = <<>>
    THEN Jit(Abort(b, "encountered un-balanced brackets, found ']' without matching '['"), st)
    ELSE
    Let(st.label_stack[Len(st.label_stack)], LAMBDA pair :
    Then(Jit(encode_all(Done(b), <<I2("cmp", Cell, imm_from(1, U8, 0))>>), st),
         LAMBDA r :
    Let(jmp_label(r.buf, OpcJnz, pair[2]), LAMBDA j :
        IF j.panic # "none" THEN Jit(j, st)
        ELSE Let(bind_label(j.buf, pair[1]), LAMBDA k :
             Let({label_drop(j.label.location, j.label.offsets),
                  label_drop(k.label.location, k.label.offsets)}, LAMBDA drops :
                IF k.panic # "none" THEN Jit(k, st)
                ELSE [buf |-> k.buf,
                      panic |-> IF drops = {"ok"} THEN "none"
                                ELSE CHOOSE x \in drops : x # "ok",
                      bf |-> [st EXCEPT
                               !.label_stack = SubSeq(@, 1, Len(@) - 1)]])))))

\* the code of one command: [buf, panic, bf] after the match arm
bf_command(b, st) ==
    Let(st.imem[st.pc], LAMBDA c :
        IF c = ">" THEN bf_right(b, st)
        ELSE IF c = "<" THEN bf_left(b, st)
        ELSE IF c \in {"+", "-"} THEN bf_fold(b, st, c)
        ELSE IF c = "." THEN bf_putchar(b, st)
        ELSE IF c = "," THEN Jit(Abort(b, "not implemented: getchar"), st)
        ELSE IF c = "[" THEN bf_open(b, st)
        ELSE bf_close(b, st))

\* one iteration of `while pc < vm.imem.len()`
BfGen ==
    /\ panic = "none" /\ bf.phase = "gen" /\ bf.pc <= Len(bf.imem)
    /\ \E r \in {bf_command(buf[1], bf)} :
          /\ buf' = [buf EXCEPT ![1] = r.buf]
          /\ panic' = r.panic
          /\ bf' = [r.bf EXCEPT !.pc = @ + 1,
                                !.at = [q \in DOMAIN bf.at \cup {bf.pc} |->
                                            IF q = bf.pc THEN Len(buf[1])
                                            ELSE bf.at[q]]]
    /\ UNCHANGED <<asms, location, offsets, lstate, trace, npatched, insn>>
    /\ UNCHANGED <<rtvars, cpu, vm>>

\* run_jit after the loop: the success exit and the epilogue, the two
\* out-of-bounds exits, then the check for a left-over '['
bf_epilogue(b, st) ==
    Then(Jit(encode_all(Done(b), <<I2("xor", Reg(64, 0), Reg(64, 0))>>), st),
         LAMBDA r1 :
    Then(Let(bind_label(r1.buf, st.epilogue), LAMBDA e :
            Jit(e, [st EXCEPT !.epilogue = e.label])),
         LAMBDA e1 :
    Then(Jit(encode_all(Done(e1.buf),
                <<I1("pop", dmem_idx), I1("pop", dmem_size),
                  I1("pop", dmem_base), I0("ret")>>), e1.bf),
         LAMBDA r2 :
    Then(Let(bind_label(r2.buf, r2.bf.oob_ov), LAMBDA l :
            Jit(l, [r2.bf EXCEPT !.oob_ov = l.label])),
         LAMBDA ov :
    Then(Jit(encode_all(Done(ov.buf),
                <<I2("mov", Reg(64, 0), imm_from(8, I32, 1))>>), ov.bf),
         LAMBDA r3 :
    Then(Let(jmp_label(r3.buf, <<OpcJmp>>, r3.bf.epilogue), LAMBDA l :
            Jit(l, [r3.bf EXCEPT !.epilogue = l.label])),
         LAMBDA e2 :
    Then(Let(bind_label(e2.buf, e2.bf.oob_uv), LAMBDA l :
            Jit(l, [e2.bf EXCEPT !.oob_uv = l.label])),
         LAMBDA uv :
    Then(Jit(encode_all(Done(uv.buf),
                <<I2("mov", Reg(64, 0), imm_from(8, I32, 2))>>), uv.bf),
         LAMBDA r4 :
    Then(Let(jmp_label(r4.buf, <<OpcJmp>>, r4.bf.epilogue), LAMBDA l :
            Jit(l, [r4.bf EXCEPT !.epilogue = l.label])),
         LAMBDA e3 :
        IF e3.bf.label_stack # <<>>
        THEN Jit(Abort(e3.buf, "encountered un-balanced brackets, left-over '[' after jitting bf program"),
                 e3.bf)
        ELSE e3)))))))))

\* the rest of run_jit up to the call: the epilogue, Runtime::new and
\* add_code (the mmap and mprotect calls succeed)
BfFinish ==
    /\ panic = "none" /\ bf.phase = "gen" /\ bf.pc > Len(bf.imem)
    /\ \E r \in {bf_epilogue(buf[1], bf)} :
        \E chk \in {add_code_check(0, PageSize, Len(r.buf))} :
          /\ panic' = IF r.panic # "none" THEN r.panic
                      ELSE IF chk # "ok" THEN chk ELSE "none"
          /\ bf' = [r.bf EXCEPT !.phase = IF panic' = "none" THEN "jitted"
                                          ELSE "gen"]
          /\ IF r.panic = "none"
             THEN /\ buf' = [buf EXCEPT ![1] = <<>>]
                  /\ mapped' = TRUE
                  /\ IF chk = "ok"
                     THEN /\ rt' = [buf |-> CHOOSE a \in MmapAddrs : TRUE,
                                    len |-> PageSize,
                                    idx |-> idx_advance(0, Len(r.buf))]
                          /\ prot' = protect_flags
                          /\ page' = copy_nonoverlapping(
                                        [i \in 1..PageSize |-> 0], 0, r.buf)
                          /\ fns' = <<[fn |-> rt'.buf, code |-> r.buf]>>
                     ELSE /\ rt' = [buf |-> CHOOSE a \in MmapAddrs : TRUE,
                                    len |-> PageSize, idx |-> 0]
                          /\ prot' = PROT_NONE
                          /\ page' = [i \in 1..PageSize |-> 0]
                          /\ fns' = <<>>
             ELSE UNCHANGED <<buf, rt, mapped, prot, page, fns>>
    /\ UNCHANGED <<asms, location, offsets, lstate, trace, npatched, insn>>
    /\ UNCHANGED <<pc, arg, fn_start, ncalls, jit_asm, cpu, vm>>

\* bf_entry(&mut vm.dmem as *mut u8): the call into the jitted code; the
\* bytes the host keeps behind vm.dmem are not known
BfEnter ==
    /\ panic = "none" /\ bf.phase = "jitted"
    /\ \E beyond \in {0, 255} :
        cpu' = cpu_enter(fns[1].fn - rt.buf, DmemAddr, 1006, <<>>,
                         {<<DmemAddr, DmemLen>>}, beyond, PutcharAddr)
    /\ bf' = [bf EXCEPT !.phase = "run"]
    /\ UNCHANGED <<asmvars, panic, rtvars, vm>>

\* the command whose code begins at code offset rip, 0 if none does
CommandAt(rip) ==
    IF \E q \in DOMAIN bf.at : bf.at[q] = rip
    THEN CHOOSE q \in DOMAIN bf.at : bf.at[q] = rip
    ELSE 0

\* the jitted code executes one instruction; executing from a page without
\* PROT_EXEC faults
BfCpuStep ==
    /\ panic = "none" /\ bf.phase = "run" /\ cpu.run = "running"
    /\ IF "X" \notin prot
       THEN cpu' = [cpu EXCEPT !.run = "fault", !.why = "SIGSEGV"]
       ELSE cpu' \in cpu_step(cpu, page)
    /\ bf' = IF CommandAt(cpu.rip) # 0
             THEN [bf EXCEPT !.last = CommandAt(cpu.rip), !.idx_at = cpu.regs[13]]
             ELSE bf
    /\ UNCHANGED <<asmvars, panic, rtvars, vm>>

\* `match bf_entry(..)`: the status in rax decides
BfExit ==
    /\ panic = "none" /\ bf.phase = "run" /\ cpu.run \in {"returned", "fault"}
    /\ bf' = [bf EXCEPT !.phase = "done",
                        !.status = IF cpu.run = "returned" THEN cpu.regs[0] ELSE -1]
    /\ panic' = IF cpu.run = "fault" THEN cpu.why
                ELSE IF cpu.regs[0] = 0 THEN "none"
                ELSE IF cpu.regs[0] = 1 THEN "oob: data pointer overflow"
                ELSE IF cpu.regs[0] = 2 THEN "oob: data pointer underflow"
                ELSE "internal error: entered unreachable code"
    /\ UNCHANGED <<asmvars, rtvars, cpu, vm>>

NextBf ==
    \/ BfPrologue
    \/ BfGen
    \/ BfFinish
    \/ BfEnter
    \/ BfCpuStep
    \/ BfExit

SpecBf == InitBf /\ [][NextBf]_vars

\* ---- C26 ---------------------------------------------------------------

\* the jitted code has returned to run_jit
BfReturned == bf.phase \in {"run", "done"} /\ cpu.run = "returned"

\* the command the jitted code entered last
BfLast == IF bf.last = 0 THEN "" ELSE bf.imem[bf.last]

\* the last command was a '>' at the last cell, a '<' at the first cell
BfOverflow == BfLast = ">" /\ bf.idx_at = DmemLen - 1
BfUnderflow == BfLast = "<" /\ bf.idx_at = 0

\* C26: only a bracket-balanced program gets to run, and its jitted code
\* never faults; it
\* returns 1 exactly when the last command it entered was a '>' with the
\* data index at the last cell (so 256 times '>' gives 1 and 255 times '>'
\* gives 0), 2 exactly when that command was a '<' with the index at 0, and 0
\* otherwise; no command is entered after such a '>' or '<'; every command is
\* entered with the index in 0..255 and every memory operand accessed is the
\* cell of an index in 0..255; and every return is the ret of the epilogue,
\* with rbx, r12 and r13 holding the caller's values again and the stack as
\* the caller left it.
C26_BfStatus ==
    /\ cpu.run # "fault"
    /\ bf.phase \in {"jitted", "run", "done"} => Balanced(bf.imem)
    /\ BfReturned =>
        /\ cpu.regs[0] = (IF BfOverflow THEN 1 ELSE IF BfUnderflow THEN 2 ELSE 0)
        /\ bf.imem = Repeat(">", DmemLen) => cpu.regs[0] = 1
        /\ bf.imem = Repeat(">", DmemLen - 1) => cpu.regs[0] = 0
        /\ cpu.rip = Unwrap(bf.epilogue.location) + 9
        /\ cpu.stack = <<>>
        /\ cpu.regs[3] = 1003 /\ cpu.regs[12] = 1012 /\ cpu.regs[13] = 1013
    /\ (cpu.run = "running" /\ CommandAt(cpu.rip) # 0) =>
        /\ ~BfOverflow /\ ~BfUnderflow
        /\ cpu.regs[13] \in 0..(DmemLen - 1)
        /\ cpu.regs[3] = DmemAddr
    /\ cpu.run \in {"running", "returned"} =>
        (cpu.ea = NoAccess \/ cpu.ea - DmemAddr \in 0..(DmemLen - 1))

\* 256 times '>' has returned 1 from the 256th '>'
C26_Witness ==
    /\ BfReturned /\ bf.imem = Repeat(">", DmemLen)
    /\ BfOverflow /\ bf.last = DmemLen /\ cpu.regs[0] = 1

\* a '<' at index 0 has returned 2, a '.' has accessed a cell
C26_Underflow == BfReturned /\ BfUnderflow /\ cpu.regs[0] = 2 /\ cpu.ea # NoAccess

\* the folded "--" on the last cell is encoded with opcode 0x83 (see C18)
\* and reaches past the 256 cells
C26_FoldedSubStrays ==
    /\ BfReturned /\ cpu.stray /\ cpu.regs[0] = 0
    /\ bf.imem = Repeat(">", DmemLen - 1) \o <<"-", "-">>

\* ---- examples/tiny_vm.rs: interp and jit --------------------------------
\* vm = [phase, imem, mem0, i, pc, icnt, jit_cache, bb_pc]: the guest
\* program, the data memory both runs start from, the TinyVm run by interp()
\* (i = [regs, dmem, pc, icnt]) and the TinyVm run by jit().  The registers
\* and the data memory of the second one are host memory the jitted blocks
\* work on: they are cpu.mem at VmRegsAddr and VmDmemAddr.  pc counts from 0.

VmRegsAddr == 16384     \* self.regs.as_mut_ptr()
VmDmemAddr == 65536     \* self.dmem.as_mut_ptr()
VmDmemLen == 65537      \* dmem: [u8; 0x1_0000 + 1]

\* bounds: instructions a run may execute, length of the programs enumerated
MaxIcnt == 100
VmMaxLen == 2

\* number of BranchZero blocks that no longer fit on the code page
LongBlocks == 93

U16 == [bytes |-> 2, signed |-> FALSE]
I16 == [bytes |-> 2, signed |-> TRUE]
U64 == [bytes |-> 8, signed |-> FALSE]

TinyInsn(op, a, b, imm) == [op |-> op, a |-> a, b |-> b, imm |-> imm]
Halt == TinyInsn("Halt", 0, 0, 0)
LoadImm(a, imm) == TinyInsn("LoadImm", a, 0, imm)
Load(a, addr) == TinyInsn("Load", a, 0, addr)
Store(a, addr) == TinyInsn("Store", a, 0, addr)
Add(a, b) == TinyInsn("Add", a, b, 0)
Addi(a, imm) == TinyInsn("Addi", a, 0, imm)
Branch(disp) == TinyInsn("Branch", 0, 0, disp)
BranchZero(a, disp) == TinyInsn("BranchZero", a, 0, disp)

\* make_tinyvm_fib(start_n)
make_tinyvm_fib(start_n) ==
    <<LoadImm(2, start_n), LoadImm(0, 0), Store(0, 0), Store(0, 4),
      LoadImm(0, 1), Store(0, 2),
      BranchZero(2, 16),
      Load(0, 4), Store(0, 0), Load(1, 2), Add(0, 1), Store(0, 4),
      Load(0, 0), Store(0, 2), Addi(2, -1), Branch(6),
      Load(0, 4), Halt>>

\* make_tinyvm_jit_test()
make_tinyvm_jit_test ==
    <<Branch(1), LoadImm(0, 16), LoadImm(1, 0),
      BranchZero(0, 8), LoadImm(2, 1), Add(1, 2), Addi(0, -1), Branch(3),
      LoadImm(0, 43981), Store(0, 65535), Load(2, 65535),
      Halt, Halt, Halt, Halt>>

\* a register is set, then one conditional branch after the other falls
\* through, then Halt
LongProgram(n) ==
    <<LoadImm(0, 1)>> \o [k \in 1..n |-> BranchZero(0, 0)] \o <<Halt>>

\* the instructions the enumerated programs are made of
VmInsns(maxlen) ==
    {Halt, LoadImm(0, 1), LoadImm(1, 65535), Load(0, 65535), Store(1, 65535),
     Add(0, 1), Addi(0, -1)}
    \cup {Branch(d) : d \in 0..maxlen}
    \cup {BranchZero(0, d) : d \in 0..maxlen}

\* the programs of the tests, a program whose blocks outgrow the code page,
\* and every program of up to maxlen instructions
VmPrograms(maxlen) ==
    {make_tinyvm_fib(0), make_tinyvm_fib(3), make_tinyvm_jit_test,
     <<Load(0, 65535), LoadImm(1, 61453), Store(1, 32768), Halt>>,
     <<Branch(2), Halt, Branch(6), LoadImm(0, 1), LoadImm(1, 2),
       LoadImm(2, 3), Branch(1)>>,
     <<LoadImm(0, 1), BranchZero(0, 5), LoadImm(0, 0), BranchZero(0, 5),
       LoadImm(1, 22), Halt>>,
     <<LoadImm(0, 100), Add(1, 0), Addi(2, 100), Halt>>,
     LongProgram(LongBlocks - 1), LongProgram(LongBlocks)}
    \cup SeqsUpTo(VmInsns(maxlen), maxlen)

\* data memory at the start: zeroed, or 0xaabb written to 0xffff
VmMems == {<<>>, [g \in {65535, 65536} |-> IF g = 65535 THEN 187 ELSE 170]}

\* TinyVm::new(code) twice, and write_mem on both
InitVm ==
    /\ asms = {1} /\ InitAsmState /\ insn = NoInsn
    /\ rt = [buf |-> CHOOSE a \in MmapAddrs : TRUE, len |-> PageSize, idx |-> 0]
    /\ mapped = TRUE /\ prot = PROT_NONE /\ page = [i \in 1..PageSize |-> 0]
    /\ pc = "idle" /\ arg = <<>> /\ fn_start = 0 /\ fns = <<>> /\ ncalls = 0
    /\ jit_asm = None
    /\ cpu = NoCpu /\ bf = NoBf
    /\ vm \in {[phase |-> "interp", imem |-> q, mem0 |-> m0,
                i |-> [regs |-> <<0, 0, 0>>, dmem |-> m0, pc |-> 0, icnt |-> 0],
                pc |-> 0, icnt |-> 0, jit_cache |-> <<>>, bb_pc |-> 0]
                    : q \in VmPrograms(VmMaxLen), m0 \in VmMems}

\* a byte of the data memory of the interpreted TinyVm
dmem_byte(dmem, g) == IF g \in DOMAIN dmem THEN dmem[g] ELSE 0

\* TinyVm::read_mem
read_mem(dmem, paddr) == dmem_byte(dmem, paddr) + 256 * dmem_byte(dmem, paddr + 1)

\* TinyVm::write_mem
write_mem(dmem, paddr, val) ==
    [g \in DOMAIN dmem \cup {paddr, paddr + 1} |->
        IF g = paddr THEN val % 256
        ELSE IF g = paddr + 1 THEN val \div 256
        ELSE dmem[g]]

\* u16::wrapping_add
wrapping_add(x, y) == (x + y) % 65536

\* `imm as u16`
as_u16(imm) == (imm + 65536) % 65536

\* the match of interp on one instruction: the TinyVm after it
interp_insn(t, c) ==
    IF c.op = "LoadImm" THEN [t EXCEPT !.regs[c.a + 1] = c.imm]
    ELSE IF c.op = "Load"
    THEN [t EXCEPT !.regs[c.a + 1] = read_mem(t.dmem, c.imm)]
    ELSE IF c.op = "Store"
    THEN [t EXCEPT !.dmem = write_mem(@, c.imm, t.regs[c.a + 1])]
    ELSE IF c.op = "Add"
    THEN [t EXCEPT !.regs[c.a + 1] = wrapping_add(@, t.regs[c.b + 1])]
    ELSE IF c.op = "Addi"
    THEN [t EXCEPT !.regs[c.a + 1] = wrapping_add(@, as_u16(c.imm))]
    ELSE IF c.op = "Branch" THEN [t EXCEPT !.pc = c.imm]
    ELSE IF c.op = "BranchZero"
    THEN [t EXCEPT !.pc = IF t.regs[c.a + 1] = 0 THEN c.imm ELSE @]
    ELSE t

\* one iteration of the loop of interp(); Halt ends it, and the same program
\* is then run by jit()
VmInterp ==
    /\ panic = "none" /\ vm.phase = "interp" /\ vm.i.icnt < MaxIcnt
    /\ IF vm.i.pc >= Len(vm.imem)
       THEN /\ panic' = "index out of bounds"
            /\ UNCHANGED vm
       ELSE /\ \E c \in {vm.imem[vm.i.pc + 1]} :
                vm' = [vm EXCEPT
                        !.i = interp_insn([@ EXCEPT !.pc = @ + 1, !.icnt = @ + 1], c),
                        !.phase = IF c.op = "Halt" THEN "jit" ELSE @]
            /\ UNCHANGED panic
    /\ UNCHANGED <<asms, buf, location, offsets, lstate, trace, npatched, insn>>
    /\ UNCHANGED <<rtvars, cpu, bf>>

\* reg_op: the guest register in the array rdi points to
reg_op(r) == indirect_disp(16, Reg(64, 7), r * 2)

\* mem_op: the guest address in the data memory rsi points to
mem_op(paddr) == indirect_disp(16, Reg(64, 6), paddr)

\* the instruction calls translate_next_bb makes for one guest instruction;
\* next is the guest pc behind it, bb_icnt the instructions of the block
translate_insn(c, bb_icnt, next) ==
    IF c.op = "Halt"
    THEN <<I2("mov", Reg(64, 0), imm_from(8, I32, 0)),
           I2("mov", Reg(64, 2), imm_from(8, U64, bb_icnt)), I0("ret")>>
    ELSE IF c.op = "LoadImm"
    THEN <<I2("mov", reg_op(c.a), imm_from(2, U16, c.imm))>>
    ELSE IF c.op = "Load"
    THEN <<I2("mov", Reg(16, 0), mem_op(c.imm)),
           I2("mov", reg_op(c.a), Reg(16, 0))>>
    ELSE IF c.op = "Store"
    THEN <<I2("mov", Reg(16, 0), reg_op(c.a)),
           I2("mov", mem_op(c.imm), Reg(16, 0))>>
    ELSE IF c.op = "Add"
    THEN <<I2("mov", Reg(16, 0), reg_op(c.b)),
           I2("add", reg_op(c.a), Reg(16, 0))>>
    ELSE IF c.op = "Addi"
    THEN <<I2("add", reg_op(c.a), imm_from(2, I16, c.imm))>>
    ELSE IF c.op = "Branch"
    THEN <<I2("mov", Reg(64, 0), imm_from(8, U64, bb_icnt)),
           I2("mov", Reg(64, 2), imm_from(8, U64, c.imm)), I0("ret")>>
    ELSE <<I2("cmp", reg_op(c.a), imm_from(2, U16, 0)),
           I2("mov", Reg(64, 0), imm_from(8, U64, bb_icnt)),
           I2("mov", Reg(64, 2), imm_from(8, U64, next)),
           I2("mov", Reg(64, 11), imm_from(8, U64, c.imm)),
           I2("cmovz", Reg(64, 2), Reg(64, 11)), I0("ret")>>

\* bb_fn(self.regs.as_mut_ptr(), self.dmem.as_mut_ptr()): the cpu enters the
\* block at page offset entry; the host memory is as the last block left it
bb_fn(entry) ==
    cpu_enter(entry, VmRegsAddr, VmDmemAddr,
              IF cpu = NoCpu
              THEN [x \in {VmDmemAddr + g : g \in DOMAIN vm.mem0} |->
                        vm.mem0[x - VmDmemAddr]]
              ELSE cpu.mem,
              {<<VmRegsAddr, 6>>, <<VmDmemAddr, VmDmemLen>>}, 0, 0)

\* the head of the loop of jit(): a cached block is entered, a missing one
\* is translated first
VmJit ==
    /\ panic = "none" /\ vm.phase = "jit" /\ vm.icnt < MaxIcnt
    /\ IF vm.pc >= Len(vm.imem)
       THEN /\ panic' = "index out of bounds"
            /\ UNCHANGED <<vm, cpu, buf>>
       ELSE IF vm.pc \in DOMAIN vm.jit_cache
       THEN /\ cpu' = bb_fn(vm.jit_cache[vm.pc])
            /\ vm' = [vm EXCEPT !.phase = "run"]
            /\ UNCHANGED <<panic, buf>>
       ELSE /\ vm' = [vm EXCEPT !.phase = "translate", !.bb_pc = vm.pc]
            /\ buf' = [buf EXCEPT ![1] = <<>>]
            /\ UNCHANGED <<panic, cpu>>
    /\ UNCHANGED <<asms, location, offsets, lstate, trace, npatched, insn>>
    /\ UNCHANGED <<rtvars, bf>>

\* one iteration of the loop of translate_next_bb
VmTranslate ==
    /\ panic = "none" /\ vm.phase = "translate"
    /\ IF vm.bb_pc >= Len(vm.imem)
       THEN /\ panic' = "index out of bounds"
            /\ UNCHANGED <<vm, buf>>
       ELSE \E c \in {vm.imem[vm.bb_pc + 1]} :
            \E r \in {encode_all(Done(buf[1]),
                        translate_insn(c, (vm.bb_pc + 1) - vm.pc, vm.bb_pc + 1))} :
                /\ buf' = [buf EXCEPT ![1] = r.buf]
                /\ panic' = r.panic
                /\ vm' = [vm EXCEPT
                            !.bb_pc = @ + 1,
                            !.phase = IF c.op \in {"Halt", "Branch", "BranchZero"}
                                      THEN "add_code" ELSE @]
    /\ UNCHANGED <<asms, location, offsets, lstate, trace, npatched, insn>>
    /\ UNCHANGED <<rtvars, cpu, bf>>

\* self.rt.add_code(bb.into_code()), the block goes to the cache and is
\* entered
VmAddCode ==
    /\ panic = "none" /\ vm.phase = "add_code"
    /\ \E chk \in {add_code_check(rt.idx, rt.len, Len(buf[1]))} :
        IF chk # "ok"
        THEN /\ panic' = chk
             /\ UNCHANGED <<vm, cpu, buf, rt, prot, page, fns>>
        ELSE /\ page' = copy_nonoverlapping(page, rt.idx, buf[1])
             /\ rt' = [rt EXCEPT !.idx = idx_advance(@, Len(buf[1]))]
             /\ prot' = protect_flags
             /\ fns' = Append(fns, [fn |-> rt.buf + rt.idx, code |-> buf[1]])
             /\ buf' = [buf EXCEPT ![1] = <<>>]
             /\ vm' = [vm EXCEPT
                        !.phase = "run",
                        !.jit_cache = [q \in DOMAIN @ \cup {vm.pc} |->
                                        IF q = vm.pc THEN rt.idx ELSE @[q]]]
             /\ cpu' = bb_fn(rt.idx)
             /\ UNCHANGED panic
    /\ UNCHANGED <<asms, location, offsets, lstate, trace, npatched, insn>>
    /\ UNCHANGED <<mapped, pc, arg, fn_start, ncalls, jit_asm, bf>>

\* the block executes one instruction
VmCpuStep ==
    /\ panic = "none" /\ vm.phase = "run" /\ cpu.run = "running"
    /\ IF "X" \notin prot
       THEN cpu' = [cpu EXCEPT !.run = "fault", !.why = "SIGSEGV"]
       ELSE cpu' \in cpu_step(cpu, page)
    /\ UNCHANGED <<asmvars, panic, rtvars, bf, vm>>

\* the match of jit() on the JitRet(rax, rdx) the block returned
VmJitRet ==
    /\ panic = "none" /\ vm.phase = "run" /\ cpu.run \in {"returned", "fault"}
    /\ IF cpu.run = "fault"
       THEN /\ panic' = cpu.why
            /\ UNCHANGED vm
       ELSE /\ vm' = IF cpu.regs[0] = 0
                     THEN [vm EXCEPT !.pc = @ + cpu.regs[2],
                                     !.icnt = @ + cpu.regs[2],
                                     !.phase = "done"]
                     ELSE [vm EXCEPT !.pc = cpu.regs[2],
                                     !.icnt = @ + cpu.regs[0],
                                     !.phase = "jit"]
            /\ UNCHANGED panic
    /\ UNCHANGED <<asmvars, rtvars, cpu, bf>>

NextVm ==
    \/ VmInterp
    \/ VmJit
    \/ VmTranslate
    \/ VmAddCode
    \/ VmCpuStep
    \/ VmJitRet

SpecVm == InitVm /\ [][NextVm]_vars

\* ---- C22 ---------------------------------------------------------------

\* a guest register of the TinyVm run by jit()
JitReg(r) ==
    rd(cpu, VmRegsAddr + 2 * r) + 256 * rd(cpu, VmRegsAddr + 2 * r + 1)

\* the guest addresses either run has written
VmTouched ==
    DOMAIN vm.i.dmem
    \cup {x - VmDmemAddr : x \in {y \in DOMAIN cpu.mem : y >= VmDmemAddr}}

\* interp() has reached Halt and jit() runs, or has run, the same program
InterpHalted == vm.phase \in {"jit", "translate", "add_code", "run", "done"}

\* jit() has reached Halt with the state interp() ended in
SameFinalState ==
    /\ \A r \in 0..2 : JitReg(r) = vm.i.regs[r + 1]
    /\ \A g \in VmTouched : rd(cpu, VmDmemAddr + g) = dmem_byte(vm.i.dmem, g)
    /\ vm.icnt = vm.i.icnt
    /\ vm.pc = vm.i.pc

\* C22: for a guest program that reaches Halt under interp(), jit() started
\* from the same state does not panic on its way, and when it reaches Halt
\* the guest registers, the data memory, icnt and pc equal those interp()
\* ended with.
C22_JitEqualsInterp ==
    /\ InterpHalted => panic = "none"
    /\ vm.phase = "done" => SameFinalState

\* interp() has halted on the long program, jit() has panicked in add_code
C22_Failing ==
    /\ InterpHalted /\ vm.imem = LongProgram(LongBlocks)
    /\ vm.i.icnt = LongBlocks + 2 /\ vm.i.pc = LongBlocks + 2
    /\ panic = "Code does not fit on the runtime code page"

\* whenever jit() does reach Halt, it agrees with interp()
C22_SameWhenJitHalts == vm.phase = "done" => SameFinalState

\* the program with one block less still fits and both runs agree
C22_LastFitting ==
    /\ vm.phase = "done" /\ vm.imem = LongProgram(LongBlocks - 1)
    /\ SameFinalState /\ vm.icnt = LongBlocks + 1

====
